---- MODULE Spec2Model ----
(***************************************************************************)
(* Model of the OutreachIQ backend: the job queue of the background worker *)
(* (backend/src/bin/worker.rs: the jobs table, the claim / complete / fail *)
(* statements, the loop of one or several driver instances), the campaign  *)
(* status handlers and the auto-pause monitor, the campaign scheduler and  *)
(* the SendEmail executor, the warm-up service and the driver's cadence.   *)
(*                                                                         *)
(* Each part has its own specification; the tables a specification does    *)
(* not use stay as they are in an empty database.                          *)
(*                                                                         *)
(* Queue time is counted in units of five minutes (the backoff base        *)
(* interval). An optional timestamp (a nullable column) is a set with at   *)
(* most one element: {} is NULL, {t} is the timestamp t. Rates are counted *)
(* in percent, health scores in points, the driver's wall clock in seconds *)
(* since midnight UTC.                                                     *)
(***************************************************************************)
EXTENDS Integers, Sequences, FiniteSets, TLC

\* ---------------------------------------------------------------- bounds
MaxJobs == 2
MaxTime == 6
NumWorkers == 2
MaxLimit == 2
MaxApiJobs == 1
MaxLiveJobs == 1
MaxCampaigns == 2
MaxEvents == 2
NumDrivers == 2
NumWorkspaces == 2
MaxBatch == 2
MaxRate == 10
MaxLeads == 3
NumInboxes == 2
SampleLimit == 10
MaxDays == 31
NumWarming == 1
MaxIteration == 4320
MaxSent == 2

\* ------------------------------------------------------ program constants
MaxRetries == 3
FiveMinutes == 1
SchedulerEvery == 10
WarmupEvery == 60
MonitorEvery == 4320
SleepSecs == 5
SecondsPerDay == 86400

Workers == 1..NumWorkers

VARIABLES
    jobs,       \* the jobs table: a sequence of rows, a row's id is its index
    now,        \* the wall clock (NOW(), Utc::now())
    pc,         \* per driver instance: "idle", "claiming", "processing", "stopped"
    limit,      \* per instance: the limit bound to the running claim statement
    txNow,      \* per instance: NOW() of the running claim statement
    snapshot,   \* per instance: the table as the running claim statement sees it
    scan,       \* per instance: snapshot rows matching WHERE, not yet visited
    locked,     \* per instance: rows the running claim statement holds FOR UPDATE
    batch,      \* per instance: claimed jobs not yet processed by the loop
    overlap,    \* per instance: another claim statement ran during this one
    campaigns,  \* the campaigns table: a sequence of rows (status, auto_paused,
                \* auto_pause_reason, paused_at)
    monitored,  \* campaigns a running monitor pass found over a threshold, each
                \* with the result of its check
    auto_pause_events,  \* the auto_pause_events table: a sequence of rows
    loaded,     \* the settings the last monitor pass loaded, if one has run
    metrics,    \* the CampaignMetrics handed to check_campaign_thresholds
    settings,   \* the WorkspaceThresholds handed to check_campaign_thresholds
    result,     \* the AutoPauseResult it returned, if it has been called
    campaign_leads,   \* the leads of a campaign, in created_at order (status)
    suppression_list, \* the leads whose email is in the workspace's suppression list
    inboxes,    \* the email_accounts table: a sequence of rows
    sendJobs,   \* payloads (lead, inbox) of the SendEmail jobs not yet executed
    target_volume,    \* per inbox: the target the last warm-up cycle computed for it
    iteration,  \* the driver loop's tick counter
    clock,      \* the wall clock of the driver, in seconds since midnight UTC
    duty,       \* the driver's position in the loop body
    ran,        \* the duties the driver has run in the current tick, in order
    resets,     \* the daily resets executed on the current calendar day
    sched,      \* per driver instance: its position in a scheduling pass and
                \* the rows the pass has fetched
    foreign_keys,     \* workspace_id of each campaign and inbox, campaign_id of each lead
    claimed,    \* the batch a claim returned to the driver loop: its jobs in order
    pos,        \* the jobs of the batch the loop has handled
    calls,      \* the mark_completed and mark_failed calls of the loop in this tick
    campaign_sent,    \* per campaign: the sent counter of its campaigns row
    risky       \* the inboxes a running protective pass has selected and not yet handled

queueVars == <<jobs, now, pc, limit, txNow, snapshot, scan, locked, batch, overlap>>
campaignVars == <<campaigns, monitored, auto_pause_events, loaded>>
thresholdVars == <<metrics, settings, result>>
sendVars == <<campaign_leads, suppression_list, inboxes, sendJobs, campaign_sent>>
warmupVars == <<target_volume>>
driverVars == <<iteration, clock, duty, ran, resets>>
schedVars == <<sched, foreign_keys>>
loopVars == <<claimed, pos, calls>>
protectVars == <<risky>>

\* Everything but the job queue.
appVars == <<campaignVars, thresholdVars, sendVars, warmupVars, driverVars,
             schedVars, loopVars, protectVars>>

\* Everything but the campaigns.
notCampaignVars == <<queueVars, thresholdVars, sendVars, warmupVars, driverVars,
                     schedVars, loopVars, protectVars>>

\* Everything but the leads, the suppression list, the inboxes and their jobs.
notSendVars == <<queueVars, campaignVars, thresholdVars, warmupVars, driverVars,
                 schedVars, loopVars, protectVars>>

\* Everything the warm-up service leaves alone.
notWarmupVars == <<queueVars, campaignVars, thresholdVars,
                   campaign_leads, suppression_list, sendJobs, campaign_sent, driverVars,
                   schedVars, loopVars, protectVars>>

\* Everything the driver's loop counter, clock and daily reset leave alone.
notDriverVars == <<queueVars, campaignVars, thresholdVars,
                   campaign_leads, suppression_list, sendJobs, campaign_sent, warmupVars,
                   schedVars, loopVars, protectVars>>

\* Everything a scheduling pass and the execution of its jobs leave alone.
notSchedVars == <<queueVars, campaignVars, thresholdVars, suppression_list, inboxes,
                  campaign_sent, warmupVars, driverVars, foreign_keys, loopVars,
                  protectVars>>

\* Everything but the driver loop's batch.
notLoopVars == <<queueVars, campaignVars, thresholdVars, sendVars, warmupVars,
                 driverVars, schedVars, protectVars>>

\* Everything a protective pass leaves alone.
notProtectVars == <<queueVars, campaignVars, thresholdVars,
                    campaign_leads, suppression_list, sendJobs, campaign_sent,
                    warmupVars, driverVars, schedVars, loopVars>>

vars == <<queueVars, appVars>>

Ids == DOMAIN jobs

None == {}
Some(t) == {t}

\* 2^n, the value of POWER(2, n)
RECURSIVE Pow2(_)
Pow2(n) == IF n <= 0 THEN 1 ELSE 2 * Pow2(n - 1)

\* The row an enqueue inserts: status 'pending', retry_count 0, max_retries 3.
NewJob(t) ==
    [status |-> "pending", retry_count |-> 0, max_retries |-> MaxRetries,
     created_at |-> t, completed_at |-> None, next_retry_at |-> None,
     error |-> None]

\* Eligible without the test of next_retry_at against NOW().
Eligible_IgnoresRetryTime(row, t) ==
    row.status = "pending" \/ row.status = "scheduled"

\* WHERE status = 'pending' OR (status = 'scheduled' AND next_retry_at <= NOW())
Eligible(row, t) ==
    \/ row.status = "pending"
    \/ /\ row.status = "scheduled"
       /\ \E r \in row.next_retry_at : r <= t

\* A row some running claim statement holds locked.
LockedBy(j) == {w \in Workers : pc[w] = "claiming" /\ j \in locked[w]}

\* FirstByCreatedAt without the ORDER BY: any candidate may come next.
FirstByCreatedAt_AnyOrder(s) == s

\* ORDER BY created_at ASC: the rows of s that may come next (ties in any order)
FirstByCreatedAt(s) ==
    {j \in s : \A k \in s : jobs[j].created_at <= jobs[k].created_at}

\* ClaimedRow without the increment of retry_count.
ClaimedRow_NoIncrement(row) ==
    [row EXCEPT !.status = "processing"]

\* SET status = 'processing', started_at = NOW(), retry_count = retry_count + 1
ClaimedRow(row) ==
    [row EXCEPT !.status = "processing", !.retry_count = row.retry_count + 1]

\* UPDATE jobs SET status = 'completed', completed_at = NOW() WHERE id = $1
mark_completed(row, t) ==
    [row EXCEPT !.status = "completed", !.completed_at = Some(t)]

\* mark_failed without the test of retry_count against max_retries: the job is
\* always rescheduled, after the base interval.
mark_failed_NoRetryLimit(row, t) ==
    [row EXCEPT
        !.status = "scheduled",
        !.error = Some(1),
        !.next_retry_at = Some(t + FiveMinutes)]

\* UPDATE jobs SET status = CASE ..., error = $2, next_retry_at = CASE ...
mark_failed(row, t) ==
    [row EXCEPT
        !.status = IF row.retry_count >= row.max_retries
                   THEN "failed" ELSE "scheduled",
        !.error = Some(1),
        !.next_retry_at = IF row.retry_count < row.max_retries
                          THEN Some(t + FiveMinutes * Pow2(row.retry_count))
                          ELSE None]

\* The job queue of an empty database, all driver instances idle.
QueueAtRest ==
    /\ jobs = <<>>
    /\ now = 0
    /\ pc = [w \in Workers |-> "idle"]
    /\ limit = [w \in Workers |-> 0]
    /\ txNow = [w \in Workers |-> 0]
    /\ snapshot = [w \in Workers |-> <<>>]
    /\ scan = [w \in Workers |-> {}]
    /\ locked = [w \in Workers |-> {}]
    /\ batch = [w \in Workers |-> {}]
    /\ overlap = [w \in Workers |-> FALSE]

\* No campaign, no auto-pause event, no monitor pass has run.
CampaignsAtRest ==
    /\ campaigns = <<>>
    /\ monitored = {}
    /\ auto_pause_events = <<>>
    /\ loaded = None

\* check_campaign_thresholds has not been called.
ThresholdsAtRest ==
    /\ metrics = [current_spam_rate |-> 0, current_reply_rate |-> 0,
                  current_bounce_rate |-> 0, previous_reply_rate |-> 0]
    /\ settings = [auto_pause_enabled |-> TRUE, spam_rate_threshold |-> 3,
                   reply_drop_threshold |-> 40, bounce_rate_threshold |-> 8]
    /\ result = None

\* No lead, no suppressed address, no inbox, no SendEmail job.
SendingAtRest ==
    /\ campaign_leads = <<>>
    /\ suppression_list = {}
    /\ inboxes = <<>>
    /\ sendJobs = {}
    /\ campaign_sent = <<>>

\* No warm-up cycle has run.
WarmupAtRest == target_volume = <<>>

\* The driver at the top of its loop, before the first tick.
DriverAtRest ==
    /\ iteration = 0
    /\ clock = 0
    /\ duty = "top"
    /\ ran = <<>>
    /\ resets = 0

\* A driver instance outside a scheduling pass.
IdleDriver ==
    [pc |-> "idle", todo |-> <<>>, leadsSel |-> <<>>, inboxSel |-> <<>>,
     idx |-> 0, inserted |-> 0, failed |-> {}]

\* No scheduling pass running, no row with a foreign key.
SchedAtRest ==
    /\ sched = [w \in 1..NumDrivers |-> IdleDriver]
    /\ foreign_keys = [campaign_workspace |-> <<>>, inbox_workspace |-> <<>>,
                       lead_campaign |-> <<>>]

\* No batch claimed by the driver loop.
LoopAtRest ==
    /\ claimed = <<>>
    /\ pos = 0
    /\ calls = <<>>

\* No protective pass running.
ProtectAtRest == risky = <<>>

Init ==
    /\ QueueAtRest
    /\ CampaignsAtRest
    /\ ThresholdsAtRest
    /\ SendingAtRest
    /\ WarmupAtRest
    /\ DriverAtRest
    /\ SchedAtRest
    /\ LoopAtRest
    /\ ProtectAtRest

\* The wall clock advances by one unit.
Tick ==
    /\ now < MaxTime
    /\ now' = now + 1
    /\ UNCHANGED <<jobs, pc, limit, txNow, snapshot, scan, locked, batch, overlap>>
    /\ UNCHANGED appVars

\* An enqueue (the scheduler's or the queue's INSERT INTO jobs) adds a pending row.
Enqueue ==
    /\ Len(jobs) < MaxJobs
    /\ jobs' = Append(jobs, NewJob(now))
    /\ UNCHANGED <<now, pc, limit, txNow, snapshot, scan, locked, batch, overlap>>
    /\ UNCHANGED appVars

\* claim_pending_jobs(pool, lim) starts: the statement takes its snapshot and
\* the rows matching the WHERE clause become the candidates of the locking scan.
ClaimBegin(w, lim) ==
    /\ pc[w] = "idle"
    /\ pc' = [pc EXCEPT ![w] = "claiming"]
    /\ limit' = [limit EXCEPT ![w] = lim]
    /\ txNow' = [txNow EXCEPT ![w] = now]
    /\ snapshot' = [snapshot EXCEPT ![w] = [j \in Ids |-> [status |-> jobs[j].status,
                                     next_retry_at |-> jobs[j].next_retry_at]]]
    /\ scan' = [scan EXCEPT ![w] = {j \in Ids : Eligible(jobs[j], now)}]
    /\ locked' = [locked EXCEPT ![w] = {}]
    /\ overlap' = [v \in Workers |->
                     IF v = w THEN \E u \in Workers \ {w} : pc[u] = "claiming"
                     ELSE IF pc[v] = "claiming" THEN TRUE ELSE overlap[v]]
    /\ UNCHANGED <<jobs, now, batch>>
    /\ UNCHANGED appVars

\* LockRow without SKIP LOCKED and without the re-check: a candidate of the
\* snapshot is taken whoever else holds it and whatever became of it.
LockRow_NoSkipLocked(w, j) == locked[w] \cup {j}

\* The row the locking scan takes when it visits candidate j: a row locked by
\* another statement is skipped (SKIP LOCKED); a row changed since the snapshot
\* is re-checked against the WHERE clause in its current version.
LockRow(w, j) ==
    IF LockedBy(j) \ {w} = {} /\ Eligible(jobs[j], txNow[w])
    THEN locked[w] \cup {j}
    ELSE locked[w]

\* FOR UPDATE SKIP LOCKED, one candidate row in created_at order, up to LIMIT.
ClaimScan(w) ==
    /\ pc[w] = "claiming"
    /\ scan[w] # {}
    /\ Cardinality(locked[w]) < limit[w]
    /\ \E j \in FirstByCreatedAt(scan[w]) :
         /\ scan' = [scan EXCEPT ![w] = scan[w] \ {j}]
         /\ locked' = [locked EXCEPT ![w] = LockRow(w, j)]
    /\ UNCHANGED <<jobs, now, pc, limit, txNow, snapshot, batch, overlap>>
    /\ UNCHANGED appVars

\* UPDATE jobs ... FROM claimed ... RETURNING: the locked rows become
\* 'processing', are returned to the caller and the locks are released.
ClaimUpdate(w) ==
    /\ pc[w] = "claiming"
    /\ scan[w] = {} \/ Cardinality(locked[w]) >= limit[w]
    /\ jobs' = [j \in Ids |-> IF j \in locked[w] THEN ClaimedRow(jobs[j]) ELSE jobs[j]]
    /\ batch' = [batch EXCEPT ![w] = locked[w]]
    /\ pc' = [pc EXCEPT ![w] = IF locked[w] = {} THEN "idle" ELSE "processing"]
    /\ locked' = [locked EXCEPT ![w] = {}]
    /\ scan' = [scan EXCEPT ![w] = {}]
    /\ limit' = [limit EXCEPT ![w] = 0]
    /\ txNow' = [txNow EXCEPT ![w] = 0]
    /\ snapshot' = [snapshot EXCEPT ![w] = <<>>]
    /\ overlap' = [overlap EXCEPT ![w] = FALSE]
    /\ UNCHANGED now
    /\ UNCHANGED appVars

\* ProcessJob without the mark_completed / mark_failed call.
ProcessJob_NoMark(w, j, ok) ==
    /\ pc[w] = "processing"
    /\ j \in batch[w]
    /\ LockedBy(j) = {}
    /\ batch' = [batch EXCEPT ![w] = batch[w] \ {j}]
    /\ pc' = [pc EXCEPT ![w] = IF batch[w] = {j} THEN "idle" ELSE "processing"]
    /\ UNCHANGED <<jobs, now, limit, txNow, snapshot, scan, locked, overlap>>
    /\ UNCHANGED appVars

\* The worker loop handles one job of its batch: process_job returns Ok and
\* the job is marked completed, or it returns Err and the job is marked failed.
ProcessJob(w, j, ok) ==
    /\ pc[w] = "processing"
    /\ j \in batch[w]
    /\ LockedBy(j) = {}
    /\ jobs' = [jobs EXCEPT ![j] = IF ok THEN mark_completed(jobs[j], now)
                                   ELSE mark_failed(jobs[j], now)]
    /\ batch' = [batch EXCEPT ![w] = batch[w] \ {j}]
    /\ pc' = [pc EXCEPT ![w] = IF batch[w] = {j} THEN "idle" ELSE "processing"]
    /\ UNCHANGED <<now, limit, txNow, snapshot, scan, locked, overlap>>
    /\ UNCHANGED appVars

\* A driver instance stops (the process is killed): a running claim statement
\* is rolled back and its locks released, the batch it held in memory is gone;
\* the rows of the table stay as they are.
Stop(w) ==
    /\ pc[w] # "stopped"
    /\ pc' = [pc EXCEPT ![w] = "stopped"]
    /\ locked' = [locked EXCEPT ![w] = {}]
    /\ scan' = [scan EXCEPT ![w] = {}]
    /\ limit' = [limit EXCEPT ![w] = 0]
    /\ txNow' = [txNow EXCEPT ![w] = 0]
    /\ snapshot' = [snapshot EXCEPT ![w] = <<>>]
    /\ overlap' = [overlap EXCEPT ![w] = FALSE]
    /\ batch' = [batch EXCEPT ![w] = {}]
    /\ UNCHANGED <<jobs, now>>
    /\ UNCHANGED appVars

\* No claim statement is running: a statement takes far less than one unit of
\* time, so Spec and SpecApi let the clock advance between statements only.
NoClaimRunning == \A w \in Workers : pc[w] # "claiming"

Next ==
    \/ NoClaimRunning /\ Tick
    \/ Enqueue
    \/ \E w \in Workers, lim \in 1..MaxLimit : ClaimBegin(w, lim)
    \/ \E w \in Workers : ClaimScan(w)
    \/ \E w \in Workers : ClaimUpdate(w)
    \/ \E w \in Workers, j \in Ids, ok \in BOOLEAN : ProcessJob(w, j, ok)
    \/ \E w \in Workers : Stop(w)

Spec == Init /\ [][Next]_vars

\* complete(job_id) called for an arbitrary job: the statement has no guard on
\* the row's status. It waits for a row lock held by a running claim.
Complete(j) ==
    /\ j \in Ids
    /\ LockedBy(j) = {}
    /\ jobs' = [jobs EXCEPT ![j] = mark_completed(jobs[j], now)]
    /\ UNCHANGED <<now, pc, limit, txNow, snapshot, scan, locked, batch, overlap>>
    /\ UNCHANGED appVars

\* fail(job_id, error) called for an arbitrary job, likewise without a guard.
Fail(j) ==
    /\ j \in Ids
    /\ LockedBy(j) = {}
    /\ jobs' = [jobs EXCEPT ![j] = mark_failed(jobs[j], now)]
    /\ UNCHANGED <<now, pc, limit, txNow, snapshot, scan, locked, batch, overlap>>
    /\ UNCHANGED appVars

\* The queue's operations called one after the other in any order, on any
\* job: a single caller that claims, handles what it claimed, and completes or
\* fails arbitrary jobs.
Caller == CHOOSE w \in Workers : TRUE

NextApi ==
    \/ NoClaimRunning /\ Tick
    \/ Len(jobs) < MaxApiJobs /\ Enqueue
    \/ \E lim \in 1..MaxLimit : ClaimBegin(Caller, lim)
    \/ ClaimScan(Caller)
    \/ ClaimUpdate(Caller)
    \/ \E j \in Ids, ok \in BOOLEAN : ProcessJob(Caller, j, ok)
    \/ \E j \in Ids : Complete(j)
    \/ \E j \in Ids : Fail(j)

SpecApi == Init /\ [][NextApi]_vars

\* A failure's retry falls within the modelled time.
RetryFits(j) ==
    \/ jobs[j].retry_count >= jobs[j].max_retries
    \/ now + FiveMinutes * Pow2(jobs[j].retry_count) <= MaxTime

\* The driver instances under fair scheduling: the clock advances (at any
\* moment, also while a claim statement runs), and an
\* instance that has not stopped keeps running its loop (claim, handle each
\* claimed job, sleep, claim again). At least one instance never stops.
NextLive ==
    \/ Tick
    \/ Len(jobs) < MaxLiveJobs /\ Enqueue
    \/ \E w \in Workers, lim \in 1..MaxLimit : ClaimBegin(w, lim)
    \/ \E w \in Workers : ClaimScan(w)
    \/ \E w \in Workers : ClaimUpdate(w)
    \/ \E w \in Workers, j \in Ids, ok \in BOOLEAN :
         (ok \/ RetryFits(j)) /\ ProcessJob(w, j, ok)
    \/ \E w \in Workers :
         (\E v \in Workers \ {w} : pc[v] # "stopped") /\ Stop(w)

Fairness ==
    /\ WF_vars(Tick)
    /\ \A w \in Workers :
         /\ WF_vars(\E lim \in 1..MaxLimit : ClaimBegin(w, lim))
         /\ WF_vars(ClaimScan(w))
         /\ WF_vars(ClaimUpdate(w))
         /\ WF_vars(\E j \in Ids, ok \in BOOLEAN :
                      (ok \/ RetryFits(j)) /\ ProcessJob(w, j, ok))

SpecLive == Init /\ [][NextLive]_vars /\ Fairness

\* The driver instances under fair scheduling when none of them stops.
NextRetry ==
    \/ Tick
    \/ Len(jobs) < MaxLiveJobs /\ Enqueue
    \/ \E w \in Workers, lim \in 1..MaxLimit : ClaimBegin(w, lim)
    \/ \E w \in Workers : ClaimScan(w)
    \/ \E w \in Workers : ClaimUpdate(w)
    \/ \E w \in Workers, j \in Ids, ok \in BOOLEAN :
         (ok \/ RetryFits(j)) /\ ProcessJob(w, j, ok)

SpecRetry == Init /\ [][NextRetry]_vars /\ Fairness

\* ------------------------------------------- auto-pause thresholds

\* Rates in percent.
Rates == 0..MaxRate

\* The thresholds of a workspace without a workspace_settings row:
\* auto-pause enabled, spam 0.03, reply drop 0.40, bounce 0.08.
DefaultSettings ==
    [auto_pause_enabled |-> TRUE, spam_rate_threshold |-> 3,
     reply_drop_threshold |-> 40, bounce_rate_threshold |-> 8]

\* The workspace_settings rows considered: the defaults, and rows with other
\* thresholds or with auto-pause switched off.
SettingsSet ==
    [auto_pause_enabled : BOOLEAN,
     spam_rate_threshold : {DefaultSettings.spam_rate_threshold, 5},
     reply_drop_threshold : {DefaultSettings.reply_drop_threshold, 50},
     bounce_rate_threshold : {DefaultSettings.bounce_rate_threshold}]

\* AutoPauseResult { should_pause: false, reason: None }
NoPause == [should_pause |-> FALSE, reason |-> None]

\* AutoPauseResult { should_pause: true, reason: Some(r) }
Pause(r) == [should_pause |-> TRUE, reason |-> Some(r)]

\* ReplyDropExceeds with >= in place of >.
ReplyDropExceeds_NonStrict(m, st) ==
    (m.previous_reply_rate - m.current_reply_rate) * 100
        >= st.reply_drop_threshold * m.previous_reply_rate

\* reply_drop > settings.reply_drop_threshold, where
\* reply_drop = (previous_reply_rate - current_reply_rate) / previous_reply_rate
\* and previous_reply_rate > 0: both sides multiplied by previous_reply_rate
\* (the threshold is in percent).
ReplyDropExceeds(m, st) ==
    (m.previous_reply_rate - m.current_reply_rate) * 100
        > st.reply_drop_threshold * m.previous_reply_rate

\* check_campaign_thresholds with the bounce rate tested before the spam rate.
check_campaign_thresholds_BounceFirst(m, st) ==
    IF m.current_bounce_rate > st.bounce_rate_threshold THEN Pause("bounce_rate")
    ELSE IF m.current_spam_rate > st.spam_rate_threshold THEN Pause("spam_rate")
    ELSE IF m.previous_reply_rate > 0 /\ ReplyDropExceeds(m, st) THEN Pause("reply_drop")
    ELSE NoPause

\* check_campaign_thresholds(metrics, settings): spam rate, then reply-rate
\* drop, then bounce rate; the first rule violated gives the reason.
check_campaign_thresholds(m, st) ==
    IF m.current_spam_rate > st.spam_rate_threshold THEN Pause("spam_rate")
    ELSE IF m.previous_reply_rate > 0 /\ ReplyDropExceeds(m, st) THEN Pause("reply_drop")
    ELSE IF m.current_bounce_rate > st.bounce_rate_threshold THEN Pause("bounce_rate")
    ELSE NoPause

\* check_campaign_thresholds is about to be called with any metrics and any
\* settings of a workspace with auto-pause enabled.
InitThresholds ==
    /\ QueueAtRest
    /\ CampaignsAtRest
    /\ metrics \in [current_spam_rate : Rates, current_reply_rate : Rates,
                    current_bounce_rate : Rates, previous_reply_rate : Rates]
    /\ settings \in {st \in SettingsSet : st.auto_pause_enabled}
    /\ result = None
    /\ SendingAtRest
    /\ WarmupAtRest
    /\ DriverAtRest
    /\ SchedAtRest
    /\ LoopAtRest
    /\ ProtectAtRest

\* let result = check_campaign_thresholds(&campaign, &settings);
CheckThresholds ==
    /\ result = None
    /\ result' = Some(check_campaign_thresholds(metrics, settings))
    /\ UNCHANGED <<metrics, settings>>
    /\ UNCHANGED <<queueVars, campaignVars, sendVars, warmupVars, driverVars,
                   schedVars, loopVars, protectVars>>

NextThresholds == CheckThresholds

SpecThresholds == InitThresholds /\ [][NextThresholds]_vars

\* ------------------------------------------------------------ campaigns

CampaignIds == DOMAIN campaigns

\* create_campaign: INSERT INTO campaigns ... status 'draft'; auto_paused,
\* auto_pause_reason and paused_at are not set (NULL, auto_paused read as FALSE).
create_campaign ==
    /\ Len(campaigns) < MaxCampaigns
    /\ campaigns' = Append(campaigns,
                           [status |-> "draft", auto_paused |-> FALSE,
                            auto_pause_reason |-> None, paused_at |-> None])
    /\ UNCHANGED <<monitored, auto_pause_events, loaded>>
    /\ UNCHANGED notCampaignVars

\* update_campaign with a status in the body: UPDATE campaigns SET status = $1
\* WHERE id = ..., whatever the row's status and the new one.
update_campaign(c, st) ==
    /\ c \in CampaignIds
    /\ campaigns' = [campaigns EXCEPT ![c].status = st]
    /\ UNCHANGED <<monitored, auto_pause_events, loaded>>
    /\ UNCHANGED notCampaignVars

\* start_campaign: UPDATE campaigns SET status = 'active', started_at = $1
\* WHERE ... AND status IN ('draft', 'paused')
start_campaign(c) ==
    /\ c \in CampaignIds
    /\ campaigns[c].status \in {"draft", "paused"}
    /\ campaigns' = [campaigns EXCEPT ![c].status = "active"]
    /\ UNCHANGED <<monitored, auto_pause_events, loaded>>
    /\ UNCHANGED notCampaignVars

\* pause_campaign of the campaigns API:
\* UPDATE campaigns SET status = 'paused' WHERE ... AND status = 'active'
pause_campaign(c) ==
    /\ c \in CampaignIds
    /\ campaigns[c].status = "active"
    /\ campaigns' = [campaigns EXCEPT ![c].status = "paused"]
    /\ UNCHANGED <<monitored, auto_pause_events, loaded>>
    /\ UNCHANGED notCampaignVars

\* pause_campaign of the founder dashboard:
\* UPDATE campaigns SET status = 'paused', paused_at = NOW() WHERE ... 'active'
founder_pause_campaign(c) ==
    /\ c \in CampaignIds
    /\ campaigns[c].status = "active"
    /\ campaigns' = [campaigns EXCEPT ![c].status = "paused", ![c].paused_at = Some(now)]
    /\ UNCHANGED <<monitored, auto_pause_events, loaded>>
    /\ UNCHANGED notCampaignVars

EventIds == DOMAIN auto_pause_events

\* resume_campaign whose second statement is left out.
resume_campaign_KeepsEvents(c, own) ==
    /\ c \in CampaignIds
    /\ own
    /\ campaigns[c].status = "paused" \/ campaigns[c].auto_paused
    /\ campaigns' = [campaigns EXCEPT ![c] =
                       [status |-> "active", auto_paused |-> FALSE,
                        auto_pause_reason |-> None, paused_at |-> None]]
    /\ UNCHANGED <<monitored, auto_pause_events, loaded>>
    /\ UNCHANGED notCampaignVars

\* resume_campaign: UPDATE campaigns SET status = 'active', auto_paused = FALSE,
\* auto_pause_reason = NULL, paused_at = NULL WHERE ... AND (status = 'paused'
\* OR auto_paused = TRUE); then UPDATE auto_pause_events SET is_resolved = TRUE,
\* resolution_action = 'resumed' WHERE campaign_id = $1 AND is_resolved = FALSE,
\* whether or not the first statement found a row; own says whether the
\* campaign is one of the caller's workspace (WHERE id = $1 AND workspace_id =
\* $2 of the first statement; the second has no workspace_id).
resume_campaign(c, own) ==
    /\ c \in CampaignIds
    /\ campaigns' =
         IF own /\ (campaigns[c].status = "paused" \/ campaigns[c].auto_paused)
         THEN [campaigns EXCEPT ![c] =
                 [status |-> "active", auto_paused |-> FALSE,
                  auto_pause_reason |-> None, paused_at |-> None]]
         ELSE campaigns
    /\ auto_pause_events' =
         [e \in EventIds |->
            IF auto_pause_events[e].campaign = c /\ ~auto_pause_events[e].is_resolved
            THEN [auto_pause_events[e] EXCEPT !.is_resolved = TRUE,
                                              !.resolution_action = Some("resumed")]
            ELSE auto_pause_events[e]]
    /\ UNCHANGED <<monitored, loaded>>
    /\ UNCHANGED notCampaignVars

\* resolve_pause_event: UPDATE auto_pause_events SET is_resolved = TRUE,
\* resolved_at = NOW() WHERE id = $1
resolve_pause_event(e) ==
    /\ e \in EventIds
    /\ auto_pause_events' = [auto_pause_events EXCEPT ![e].is_resolved = TRUE]
    /\ UNCHANGED <<campaigns, monitored, loaded>>
    /\ UNCHANGED notCampaignVars

\* CampaignMetrics with the reply rate of an earlier period as previous rate.
CampaignMetrics_EarlierPeriod(spam, reply, bounce) ==
    [current_spam_rate |-> spam, current_reply_rate |-> reply,
     current_bounce_rate |-> bounce, previous_reply_rate |-> MaxRate]

\* The CampaignMetrics row of a campaign: the workspace's average spam and
\* bounce rate, and replied / sent both as current and as previous reply rate.
CampaignMetrics(spam, reply, bounce) ==
    [current_spam_rate |-> spam, current_reply_rate |-> reply,
     current_bounce_rate |-> bounce, previous_reply_rate |-> reply]

\* settings.unwrap_or(WorkspaceThresholds { true, 0.03, 0.40, 0.08 }): row is
\* the workspace_settings row, if the workspace has one.
EffectiveSettings(row) == IF row = None THEN DefaultSettings ELSE CHOOSE st \in row : TRUE

\* The detail string of a result: format!(...) of the rule violated and the
\* rates, present exactly when a reason is.
Detail(res) == {<<"detail", r>> : r \in res.reason}

\* The campaigns a monitor pass checks: WHERE c.status = 'active' AND
\* COALESCE(c.auto_paused, FALSE) = FALSE
Checked(c) == campaigns[c].status = "active" /\ ~campaigns[c].auto_paused

\* The records a pass keeps of the campaigns over a threshold.
OverThreshold(st, spam, reply, bounce) ==
    {[campaign |-> c,
      result |-> check_campaign_thresholds(CampaignMetrics(spam, reply, bounce), st)] :
        c \in {d \in CampaignIds :
                 /\ Checked(d)
                 /\ check_campaign_thresholds(
                        CampaignMetrics(spam, reply, bounce), st).should_pause}}

\* What a pass records of its settings: the row found, the settings in
\* effect, and whether the metrics are over a threshold of these.
Loaded(row, spam, reply, bounce) ==
    [row |-> row, effective |-> EffectiveSettings(row),
     violation |-> check_campaign_thresholds(CampaignMetrics(spam, reply, bounce),
                                             EffectiveSettings(row)).should_pause]

\* MonitorSelect without the return for auto_pause_enabled = false.
MonitorSelect_IgnoresEnabled(row, spam, reply, bounce) ==
    /\ monitored = {}
    /\ Len(auto_pause_events)
         + Cardinality(OverThreshold(EffectiveSettings(row), spam, reply, bounce)) <= MaxEvents
    /\ loaded' = Some(Loaded(row, spam, reply, bounce))
    /\ monitored' = OverThreshold(EffectiveSettings(row), spam, reply, bounce)
    /\ UNCHANGED <<campaigns, auto_pause_events>>
    /\ UNCHANGED notCampaignVars

\* check_and_auto_pause up to its loop: the settings are loaded (the defaults
\* without a row); with auto-pause disabled the pass returns; otherwise the
\* metrics of the campaigns that are active and not auto-paused are selected
\* and checked, and the campaigns over a threshold are to be paused. (A pass
\* runs while the events table has room for its events.)
MonitorSelect(row, spam, reply, bounce) ==
    /\ monitored = {}
    /\ Len(auto_pause_events)
         + Cardinality(OverThreshold(EffectiveSettings(row), spam, reply, bounce)) <= MaxEvents
    /\ loaded' = Some(Loaded(row, spam, reply, bounce))
    /\ monitored' = IF EffectiveSettings(row).auto_pause_enabled
                    THEN OverThreshold(EffectiveSettings(row), spam, reply, bounce)
                    ELSE {}
    /\ UNCHANGED <<campaigns, auto_pause_events>>
    /\ UNCHANGED notCampaignVars

\* The monitor's pause_campaign without the INSERT INTO auto_pause_events.
MonitorPause_NoEvent(m) ==
    /\ m \in monitored
    /\ campaigns' = [campaigns EXCEPT ![m.campaign] =
                       [status |-> "paused", auto_paused |-> TRUE,
                        auto_pause_reason |-> Detail(m.result), paused_at |-> Some(now)]]
    /\ monitored' = monitored \ {m}
    /\ UNCHANGED <<auto_pause_events, loaded>>
    /\ UNCHANGED notCampaignVars

\* The monitor's pause_campaign: UPDATE campaigns SET status = 'paused',
\* auto_paused = TRUE, auto_pause_reason = $3, paused_at = $4 WHERE id = $1 AND
\* workspace_id = $2; INSERT INTO auto_pause_events (..., campaign_id,
\* pause_reason, pause_reason_detail, created_at)
MonitorPause(m) ==
    /\ m \in monitored
    /\ campaigns' = [campaigns EXCEPT ![m.campaign] =
                       [status |-> "paused", auto_paused |-> TRUE,
                        auto_pause_reason |-> Detail(m.result), paused_at |-> Some(now)]]
    /\ auto_pause_events' =
         Append(auto_pause_events,
                [campaign |-> m.campaign, pause_reason |-> m.result.reason,
                 pause_reason_detail |-> Detail(m.result),
                 is_resolved |-> FALSE, resolution_action |-> None])
    /\ monitored' = monitored \ {m}
    /\ UNCHANGED loaded
    /\ UNCHANGED notCampaignVars

\* The workspace_settings rows a pass may find: none, the default thresholds,
\* the default thresholds with auto-pause disabled, or with a reply-drop
\* threshold of 0.
SettingsRows ==
    {None, Some(DefaultSettings),
     Some([DefaultSettings EXCEPT !.auto_pause_enabled = FALSE]),
     Some([DefaultSettings EXCEPT !.reply_drop_threshold = 0])}

\* The rates a pass may compute: none, over the spam threshold only, and over
\* every threshold.
MonitorRates == {0, DefaultSettings.spam_rate_threshold + 1, MaxRate - 1}

\* Monitor runs interleaved with the campaign handlers called in any order.
NextCampaign ==
    \/ create_campaign
    \/ \E c \in CampaignIds, st \in {"draft", "active", "paused", "completed"} : update_campaign(c, st)
    \/ \E c \in CampaignIds : start_campaign(c)
    \/ \E c \in CampaignIds : pause_campaign(c)
    \/ \E c \in CampaignIds : founder_pause_campaign(c)
    \/ \E c \in CampaignIds, own \in BOOLEAN : resume_campaign(c, own)
    \/ \E e \in EventIds : resolve_pause_event(e)
    \/ \E row \in SettingsRows, spam \in MonitorRates, bounce \in {0, MaxRate - 1},
          reply \in {0, MaxRate} :
         MonitorSelect(row, spam, reply, bounce)
    \/ \E m \in monitored : MonitorPause(m)

SpecCampaign == Init /\ [][NextCampaign]_vars

\* ------------------------------------- campaign scheduler and sending

LeadIds == DOMAIN campaign_leads
InboxIds == DOMAIN inboxes

\* The email_accounts rows considered at the start: active, warming or paused, a daily
\* limit of SampleLimit with none or all but one of it used, and a health
\* score below 50, or of 80 or 90 points.
InboxRows ==
    [warmup_status : {"active", "warming", "paused"},
     daily_limit : {SampleLimit},
     sent_today : {0, SampleLimit - 1},
     health_score : {40, 80, 90}]

\* A campaign without leads yet, the workspace's inboxes in any condition.
InitSend ==
    /\ QueueAtRest
    /\ CampaignsAtRest
    /\ ThresholdsAtRest
    /\ campaign_leads = <<>>
    /\ suppression_list = {}
    /\ inboxes \in [1..NumInboxes -> InboxRows]
    /\ sendJobs = {}
    /\ campaign_sent = <<0>>
    /\ WarmupAtRest
    /\ DriverAtRest
    /\ SchedAtRest
    /\ LoopAtRest
    /\ ProtectAtRest

\* add_leads_to_campaign: INSERT INTO campaign_leads ... 'pending'
add_leads_to_campaign ==
    /\ Len(campaign_leads) < MaxLeads
    /\ campaign_leads' = Append(campaign_leads, [status |-> "pending"])
    /\ UNCHANGED <<suppression_list, inboxes, sendJobs, campaign_sent>>
    /\ UNCHANGED notSendVars

\* The leads schedule_campaign_sends selects: status 'pending', email not in
\* the suppression list, ORDER BY created_at ASC (LIMIT 100 is beyond MaxLeads).
PendingLeads ==
    SelectSeq([l \in LeadIds |-> l],
              LAMBDA l : campaign_leads[l].status = "pending" /\ l \notin suppression_list)

\* get_available_inboxes: WHERE warmup_status IN ('active', 'warming')
\* AND sent_today < daily_limit AND health_score >= 50.0
Available(i) ==
    /\ inboxes[i].warmup_status \in {"active", "warming"}
    /\ inboxes[i].sent_today < inboxes[i].daily_limit
    /\ inboxes[i].health_score >= 50

\* ORDER BY health_score DESC, sent_today ASC: i may come before k.
MayPrecede(i, k) ==
    \/ inboxes[i].health_score > inboxes[k].health_score
    \/ /\ inboxes[i].health_score = inboxes[k].health_score
       /\ inboxes[i].sent_today <= inboxes[k].sent_today

\* The lists get_available_inboxes may return (rows equal in both sort keys
\* come in any order).
AvailableInboxes ==
    LET avail == {i \in InboxIds : Available(i)}
        n == Cardinality(avail)
    IN {q \in [1..n -> avail] :
            /\ \A a, b \in 1..n : a # b => q[a] # q[b]
            /\ \A a, b \in 1..n : a < b => MayPrecede(q[a], q[b])}

\* The loop of schedule_campaign_sends over the selected leads (idx counted
\* from 0): the inbox is inboxes[idx % len]; its remaining capacity is
\* computed from the fetched row, which the loop never updates; with capacity
\* left a SendEmail job is inserted and the lead marked 'scheduled'.
AssignedInbox(q, idx) == q[(idx % Len(q)) + 1]

\* schedule_campaign_sends(campaign_id), one whole pass.
schedule_campaign_sends ==
    /\ PendingLeads # <<>>
    /\ \E q \in AvailableInboxes :
         /\ Len(q) > 0
         /\ LET leadsSel == PendingLeads
                taken == {k \in 1..Len(leadsSel) : inboxes[AssignedInbox(q, k - 1)].daily_limit
                                 - inboxes[AssignedInbox(q, k - 1)].sent_today > 0}
            IN /\ sendJobs' = sendJobs \cup
                     {[lead |-> leadsSel[k], inbox |-> AssignedInbox(q, k - 1)] : k \in taken}
               /\ campaign_leads' =
                     [l \in LeadIds |->
                        IF \E k \in taken : leadsSel[k] = l
                        THEN [campaign_leads[l] EXCEPT !.status = "scheduled"]
                        ELSE campaign_leads[l]]
    /\ UNCHANGED <<suppression_list, inboxes, campaign_sent>>
    /\ UNCHANGED notSendVars

\* SendEffects without UPDATE campaigns SET sent = sent + 1.
SendEffects_NoCampaignCount(l, i) ==
    /\ campaign_leads' = [campaign_leads EXCEPT ![l].status = "sent"]
    /\ inboxes' = [inboxes EXCEPT ![i].sent_today = @ + 1]
    /\ UNCHANGED campaign_sent

\* The three UPDATEs of send_campaign_email after the message is sent: the
\* campaign lead becomes 'sent', sent_today of the inbox and sent of the
\* campaign grow by one.
SendEffects(l, i) ==
    /\ campaign_leads' = [campaign_leads EXCEPT ![l].status = "sent"]
    /\ inboxes' = [inboxes EXCEPT ![i].sent_today = @ + 1]
    /\ campaign_sent' =
         [campaign_sent EXCEPT ![IF l \in DOMAIN foreign_keys.lead_campaign
                                 THEN foreign_keys.lead_campaign[l] ELSE 1] = @ + 1]

\* A SendEmail job is claimed and executed: send_campaign_email loads the
\* inbox, the campaign and the lead, sends the message over SMTP, marks the
\* campaign lead 'sent' and adds one to the inbox's sent_today and to the
\* campaign's sent.
ExecuteSend(job) ==
    /\ job \in sendJobs
    /\ SendEffects(job.lead, job.inbox)
    /\ sendJobs' = sendJobs \ {job}
    /\ UNCHANGED suppression_list
    /\ UNCHANGED notSendVars

\* process_unsubscribe: the email goes into the suppression list and the
\* lead's campaign_leads rows are set to 'unsubscribed'.
process_unsubscribe(l) ==
    /\ l \in LeadIds
    /\ suppression_list' = suppression_list \cup {l}
    /\ campaign_leads' = [campaign_leads EXCEPT ![l].status = "unsubscribed"]
    /\ UNCHANGED <<inboxes, sendJobs, campaign_sent>>
    /\ UNCHANGED notSendVars

\* add_to_suppression: the email goes into the suppression list.
add_to_suppression(l) ==
    /\ l \in LeadIds
    /\ l \notin suppression_list
    /\ suppression_list' = suppression_list \cup {l}
    /\ UNCHANGED <<campaign_leads, inboxes, sendJobs, campaign_sent>>
    /\ UNCHANGED notSendVars

NextSend ==
    \/ add_leads_to_campaign
    \/ schedule_campaign_sends
    \/ \E job \in sendJobs : ExecuteSend(job)
    \/ \E l \in LeadIds : process_unsubscribe(l)
    \/ \E l \in LeadIds : add_to_suppression(l)

SpecSend == InitSend /\ [][NextSend]_vars

\* ------------------------------------------------------ warm-up service

\* The email_accounts rows considered at the start of the warm-up service:
\* pending or warming (an inbox becomes active by graduation only), the daily
\* limit of a new account, nothing, all but one of that limit or a full day's
\* volume sent, a health score of 40, 60, 89 or 90 points, created up to
\* MaxDays whole days ago
\* (days_active = (now - created_at).num_days()).
WarmingInboxRows ==
    [warmup_status : {"pending", "warming"},
     daily_limit : {SampleLimit},
     sent_today : {0, SampleLimit - 1, 50},
     health_score : {40, 60, 89, 90},
     days_active : 0..MaxDays]

InitWarmup ==
    /\ QueueAtRest
    /\ CampaignsAtRest
    /\ ThresholdsAtRest
    /\ campaign_leads = <<>>
    /\ suppression_list = {}
    /\ sendJobs = {}
    /\ campaign_sent = <<>>
    /\ inboxes \in [1..NumWarming -> WarmingInboxRows]
    /\ target_volume = [i \in 1..NumWarming |-> None]
    /\ DriverAtRest
    /\ SchedAtRest
    /\ LoopAtRest
    /\ ProtectAtRest

\* calculate_target_volume with the 40 step kept one day longer.
calculate_target_volume_Shifted(days_active) ==
    IF days_active \in 0..2 THEN 5
    ELSE IF days_active \in 3..5 THEN 10
    ELSE IF days_active \in 6..9 THEN 15
    ELSE IF days_active \in 10..14 THEN 20
    ELSE IF days_active \in 15..21 THEN 30
    ELSE IF days_active \in 22..29 THEN 40
    ELSE 50

\* calculate_target_volume: match days_active { 0..=2 => 5, ... , _ => 50 }
calculate_target_volume(days_active) ==
    IF days_active \in 0..2 THEN 5
    ELSE IF days_active \in 3..5 THEN 10
    ELSE IF days_active \in 6..9 THEN 15
    ELSE IF days_active \in 10..14 THEN 20
    ELSE IF days_active \in 15..21 THEN 30
    ELSE IF days_active \in 22..28 THEN 40
    ELSE 50

\* is_warmup_complete without the test of the health score.
is_warmup_complete_AnyHealth(row) == row.days_active >= 30

\* is_warmup_complete: days_active >= 30 && inbox.health_score >= 90.0
is_warmup_complete(row) == row.days_active >= 30 /\ row.health_score >= 90

\* target_volume.saturating_sub(inbox.sent_today)
saturating_sub(a, b) == IF a > b THEN a - b ELSE 0

\* What one pass of the cycle's loop does to a warming inbox: with warm-up
\* volume remaining, update_warmup_progress sets daily_limit to the target;
\* a complete warm-up is marked: warmup_status 'active', daily_limit 50.
WarmupCycleRow(row) ==
    LET target == calculate_target_volume(row.days_active)
        progressed == IF saturating_sub(target, row.sent_today) > 0
                      THEN [row EXCEPT !.daily_limit = target] ELSE row
    IN IF is_warmup_complete(row)
       THEN [progressed EXCEPT !.warmup_status = "active", !.daily_limit = 50]
       ELSE progressed

\* execute_warmup_cycle: every inbox with warmup_status = 'warming'.
execute_warmup_cycle ==
    /\ inboxes' = [i \in InboxIds |->
                     IF inboxes[i].warmup_status = "warming"
                     THEN WarmupCycleRow(inboxes[i]) ELSE inboxes[i]]
    /\ target_volume' = [i \in InboxIds |->
                           IF inboxes[i].warmup_status = "warming"
                           THEN Some(calculate_target_volume(inboxes[i].days_active))
                           ELSE None]
    /\ UNCHANGED notWarmupVars

\* monitor_and_protect that pauses every inbox it selects.
monitor_and_protect_PausesWarned ==
    /\ inboxes' = [i \in InboxIds |->
                     IF /\ inboxes[i].health_score < 75
                        /\ inboxes[i].warmup_status \in {"warming", "active"}
                     THEN [inboxes[i] EXCEPT !.warmup_status = "paused"]
                     ELSE inboxes[i]]
    /\ UNCHANGED target_volume
    /\ UNCHANGED notWarmupVars

\* monitor_and_protect: of the warming or active inboxes with a health score
\* below 75, those below 50 are paused.
monitor_and_protect ==
    /\ inboxes' = [i \in InboxIds |->
                     IF /\ inboxes[i].health_score < 75
                        /\ inboxes[i].warmup_status \in {"warming", "active"}
                        /\ inboxes[i].health_score < 50
                     THEN [inboxes[i] EXCEPT !.warmup_status = "paused"]
                     ELSE inboxes[i]]
    /\ UNCHANGED target_volume
    /\ UNCHANGED notWarmupVars

\* start_warmup: SET warmup_status = 'warming' WHERE ... IN ('pending', 'paused')
start_warmup(i) ==
    /\ inboxes[i].warmup_status \in {"pending", "paused"}
    /\ inboxes' = [inboxes EXCEPT ![i].warmup_status = "warming"]
    /\ UNCHANGED target_volume
    /\ UNCHANGED notWarmupVars

\* pause_warmup: SET warmup_status = 'paused' WHERE ... IN ('warming', 'active')
pause_warmup(i) ==
    /\ inboxes[i].warmup_status \in {"warming", "active"}
    /\ inboxes' = [inboxes EXCEPT ![i].warmup_status = "paused"]
    /\ UNCHANGED target_volume
    /\ UNCHANGED notWarmupVars

\* A day passes: every inbox is one more whole day old. The targets of the
\* last cycle were locals of that cycle.
DayPasses ==
    /\ \A i \in InboxIds : inboxes[i].days_active < MaxDays
    /\ inboxes' = [i \in InboxIds |-> [inboxes[i] EXCEPT !.days_active = @ + 1]]
    /\ target_volume' = [i \in InboxIds |-> None]
    /\ UNCHANGED notWarmupVars

NextWarmup ==
    \/ execute_warmup_cycle
    \/ monitor_and_protect
    \/ \E i \in InboxIds : start_warmup(i)
    \/ \E i \in InboxIds : pause_warmup(i)
    \/ DayPasses

SpecWarmup == InitWarmup /\ [][NextWarmup]_vars

\* ------------------------------------------------------ the driver loop

\* One active inbox with nothing sent; the driver is started two ticks before
\* midnight UTC, or at noon.
InitDriver ==
    /\ QueueAtRest
    /\ CampaignsAtRest
    /\ ThresholdsAtRest
    /\ campaign_leads = <<>>
    /\ suppression_list = {}
    /\ sendJobs = {}
    /\ campaign_sent = <<>>
    /\ inboxes = <<[warmup_status |-> "active", daily_limit |-> SampleLimit,
                    sent_today |-> 0, health_score |-> 90]>>
    /\ WarmupAtRest
    /\ iteration = 0
    /\ clock \in {SecondsPerDay - 2 * SleepSecs, SecondsPerDay \div 2}
    /\ duty = "top"
    /\ ran = <<>>
    /\ resets = 0
    /\ SchedAtRest
    /\ LoopAtRest
    /\ ProtectAtRest

\* if iteration % 10 == 0, with every fifth tick in place of every tenth.
SchedulerDue_EveryFifth(n) == n % 5 = 0

\* if iteration % 10 == 0
SchedulerDue(n) == n % SchedulerEvery = 0

\* should_reset_daily_counters: now.time().hour() == 0 && now.time().minute() < 5
should_reset_daily_counters(t) ==
    /\ t \div 3600 = 0
    /\ (t % 3600) \div 60 < 5

\* iteration += 1, then the jobs of this tick are claimed and processed, one
\* after the other; a SendEmail job among them adds one to sent_today of its
\* inbox (sends are counted up to MaxSent).
DriverClaim(sends) ==
    /\ duty = "top"
    /\ iteration < MaxIteration
    /\ iteration' = iteration + 1
    /\ ran' = <<"claim">>
    /\ IF sends
       THEN /\ inboxes[1].sent_today < MaxSent
            /\ inboxes' = [inboxes EXCEPT ![1].sent_today = @ + 1]
       ELSE UNCHANGED inboxes
    /\ duty' = "scheduler"
    /\ UNCHANGED <<clock, resets>>
    /\ UNCHANGED notDriverVars

\* if iteration % 10 == 0 { campaign_scheduler.process_active_campaigns() }
DriverScheduler ==
    /\ duty = "scheduler"
    /\ ran' = IF SchedulerDue(iteration) THEN Append(ran, "scheduler") ELSE ran
    /\ duty' = "warmup"
    /\ UNCHANGED <<iteration, clock, resets, inboxes>>
    /\ UNCHANGED notDriverVars

\* if iteration % 60 == 0 { execute_warmup_cycle(); monitor_and_protect() }
DriverWarmup ==
    /\ duty = "warmup"
    /\ ran' = IF iteration % WarmupEvery = 0 THEN ran \o <<"warmup", "protect">> ELSE ran
    /\ duty' = "monitor"
    /\ UNCHANGED <<iteration, clock, resets, inboxes>>
    /\ UNCHANGED notDriverVars

\* if iteration % 4320 == 0 { auto_pause::run_health_check_job() }
DriverMonitor ==
    /\ duty = "monitor"
    /\ ran' = IF iteration % MonitorEvery = 0 THEN Append(ran, "monitor") ELSE ran
    /\ duty' = "reset"
    /\ UNCHANGED <<iteration, clock, resets, inboxes>>
    /\ UNCHANGED notDriverVars

\* if should_reset_daily_counters() { warmup_service.reset_daily_counters() }:
\* UPDATE email_accounts SET sent_today = 0
DriverReset ==
    /\ duty = "reset"
    /\ IF should_reset_daily_counters(clock)
       THEN /\ inboxes' = [i \in InboxIds |-> [inboxes[i] EXCEPT !.sent_today = 0]]
            /\ resets' = resets + 1
       ELSE UNCHANGED <<inboxes, resets>>
    /\ duty' = "sleep"
    /\ UNCHANGED <<iteration, clock, ran>>
    /\ UNCHANGED notDriverVars

\* sleep(Duration::from_secs(5)): the clock is five seconds on when the next
\* tick starts (the duties of a tick take no time to speak of); past midnight
\* a new calendar day begins.
DriverSleep ==
    /\ duty = "sleep"
    /\ clock' = (clock + SleepSecs) % SecondsPerDay
    /\ resets' = IF clock + SleepSecs >= SecondsPerDay THEN 0 ELSE resets
    /\ ran' = <<>>
    /\ duty' = "top"
    /\ UNCHANGED <<iteration, inboxes>>
    /\ UNCHANGED notDriverVars

\* One driver instance running its loop.
NextDriver ==
    \/ \E sends \in BOOLEAN : DriverClaim(sends)
    \/ DriverScheduler
    \/ DriverWarmup
    \/ DriverMonitor
    \/ DriverReset
    \/ DriverSleep

SpecDriver == InitDriver /\ [][NextDriver]_vars

\* iteration += 1, then claim_pending_jobs returns Err(e): "Error fetching
\* jobs" is printed, no job is processed, and the loop body goes on with the
\* duties after the match.
DriverClaimError ==
    /\ duty = "top"
    /\ iteration < MaxIteration
    /\ iteration' = iteration + 1
    /\ ran' = <<"claim_error">>
    /\ duty' = "scheduler"
    /\ UNCHANGED <<clock, resets, inboxes>>
    /\ UNCHANGED notDriverVars

\* One driver instance running its loop against a store that may fail the
\* claim statement.
NextTick ==
    \/ NextDriver
    \/ DriverClaimError

SpecTick == InitDriver /\ [][NextTick]_vars

\* ------------------------------------- scheduling passes of the drivers

Drivers == 1..NumDrivers
\* The email_accounts rows considered for the passes: an active and healthy
\* inbox with nothing sent, a paused one, and an active one of low health.
SchedInboxRows ==
    {[warmup_status |-> "active", daily_limit |-> SampleLimit, sent_today |-> 0,
      health_score |-> 90],
     [warmup_status |-> "paused", daily_limit |-> SampleLimit, sent_today |-> 0,
      health_score |-> 90],
     [warmup_status |-> "active", daily_limit |-> SampleLimit, sent_today |-> 0,
      health_score |-> 40]}

\* A campaigns row of the given status that no monitor has touched.
CampaignRow(st) ==
    [status |-> st, auto_paused |-> FALSE, auto_pause_reason |-> None, paused_at |-> None]

\* n leads attached to campaigns, none scheduled yet.
PendingRows(n) == [l \in 1..n |-> [status |-> "pending"]]

\* Campaign c belongs to workspace c (modulo the number of workspaces).
CampaignWorkspaces == [c \in 1..MaxCampaigns |-> ((c - 1) % NumWorkspaces) + 1]

\* The first campaign active, the others active or paused; the first inbox in
\* the first workspace; the leads of a campaign created before those of the
\* next; the first lead suppressed or not.
InitSmall ==
    /\ campaigns \in {q \in [1..MaxCampaigns -> {CampaignRow("active"), CampaignRow("paused")}] :
                        q[1].status = "active"}
    /\ campaign_leads = PendingRows(MaxLeads)
    /\ suppression_list \in {{}, {1}}
    /\ inboxes \in [1..NumInboxes -> SchedInboxRows]
    /\ \E iw \in [1..NumInboxes -> 1..NumWorkspaces], lc \in [1..MaxLeads -> 1..MaxCampaigns] :
         /\ iw[1] = 1
         /\ \A a, b \in 1..MaxLeads : a < b => lc[a] <= lc[b]
         /\ foreign_keys = [campaign_workspace |-> CampaignWorkspaces,
                            inbox_workspace |-> iw, lead_campaign |-> lc]

\* LIMIT 100 of the leads query.
LeadLimit == 100

\* A backlog of one lead more than a pass fetches, all of the first campaign,
\* in a workspace whose inboxes are all paused.
InitBacklog ==
    /\ campaigns = [c \in 1..MaxCampaigns |-> CampaignRow("active")]
    /\ campaign_leads = PendingRows(LeadLimit + 1)
    /\ suppression_list = {}
    /\ inboxes = [i \in 1..NumInboxes |->
                    [warmup_status |-> "paused", daily_limit |-> SampleLimit,
                     sent_today |-> 0, health_score |-> 90]]
    /\ foreign_keys = [campaign_workspace |-> CampaignWorkspaces,
                       inbox_workspace |-> [i \in 1..NumInboxes |-> 1],
                       lead_campaign |-> [l \in 1..(LeadLimit + 1) |-> 1]]

InitSched ==
    /\ QueueAtRest
    /\ monitored = {}
    /\ auto_pause_events = <<>>
    /\ loaded = None
    /\ ThresholdsAtRest
    /\ sendJobs = {}
    /\ campaign_sent = [c \in 1..MaxCampaigns |-> 0]
    /\ WarmupAtRest
    /\ DriverAtRest
    /\ sched = [w \in Drivers |-> IdleDriver]
    /\ LoopAtRest
    /\ ProtectAtRest
    /\ (InitSmall \/ InitBacklog)

\* SELECT id FROM campaigns WHERE status = 'active'
ActiveCampaigns ==
    SelectSeq([c \in CampaignIds |-> c], LAMBDA c : campaigns[c].status = "active")

\* PendingLeadsOf without cl.status = 'pending'.
PendingLeadsOf_AnyStatus(c) ==
    SelectSeq([l \in LeadIds |-> l],
              LAMBDA l : /\ foreign_keys.lead_campaign[l] = c
                         /\ l \notin suppression_list)

\* The leads query of a campaign before its LIMIT: status 'pending', email not
\* in the suppression list of the workspace, ORDER BY created_at ASC.
PendingLeadsOf(c) ==
    SelectSeq([l \in LeadIds |-> l],
              LAMBDA l : /\ foreign_keys.lead_campaign[l] = c
                         /\ campaign_leads[l].status = "pending"
                         /\ l \notin suppression_list)

\* The leads query without its LIMIT.
FetchLeads_NoLimit(c) == PendingLeadsOf(c)

\* The leads query: LIMIT 100.
FetchLeads(c) ==
    SubSeq(PendingLeadsOf(c), 1,
           IF Len(PendingLeadsOf(c)) < LeadLimit THEN Len(PendingLeadsOf(c)) ELSE LeadLimit)

\* The row of AvailableInbox a pass keeps of an inbox: id, daily_limit and
\* sent_today as fetched.
AvailableInbox(i) ==
    [id |-> i, daily_limit |-> inboxes[i].daily_limit, sent_today |-> inboxes[i].sent_today]

\* get_available_inboxes(workspace_id): the lists it may return.
AvailableInboxesOf(ws) ==
    LET avail == {i \in InboxIds : foreign_keys.inbox_workspace[i] = ws /\ Available(i)}
        n == Cardinality(avail)
    IN {[k \in 1..n |-> AvailableInbox(q[k])] :
          q \in {r \in [1..n -> avail] :
                   /\ \A a, b \in 1..n : a # b => r[a] # r[b]
                   /\ \A a, b \in 1..n : a < b => MayPrecede(r[a], r[b])}}

\* process_active_campaigns starts: the ids of the active campaigns are
\* fetched; without any the pass is over.
SchedBegin(w) ==
    /\ sched[w].pc = "idle"
    /\ sched' = [sched EXCEPT ![w] =
                   [IdleDriver EXCEPT !.pc = IF ActiveCampaigns = <<>> THEN "idle" ELSE "campaign",
                                      !.todo = ActiveCampaigns,
                                      !.inserted = sched[w].inserted]]
    /\ UNCHANGED <<campaign_leads, sendJobs>>
    /\ UNCHANGED notSchedVars

\* Returned with an Err that ends the loop over the campaigns.
Returned_StopsOnError(d, err) ==
    [pc |-> IF Len(d.todo) > 1 /\ ~err THEN "campaign" ELSE "idle",
     todo |-> IF err THEN <<>> ELSE Tail(d.todo),
     leadsSel |-> <<>>, inboxSel |-> <<>>, idx |-> 0,
     inserted |-> d.inserted,
     failed |-> IF err THEN d.failed \cup {Head(d.todo)} ELSE d.failed]

\* The driver's record once schedule_campaign_sends has returned for the
\* first campaign of todo: the loop goes on with the next campaign, or ends.
Returned(d, err) ==
    [pc |-> IF Len(d.todo) > 1 THEN "campaign" ELSE "idle",
     todo |-> Tail(d.todo), leadsSel |-> <<>>, inboxSel |-> <<>>, idx |-> 0,
     inserted |-> d.inserted,
     failed |-> IF err THEN d.failed \cup {Head(d.todo)} ELSE d.failed]

\* schedule_campaign_sends(campaign_id) up to the leads query: the workspace of
\* the campaign is looked up and the leads are fetched; without leads it
\* returns Ok(0).
SchedFetchLeads(w) ==
    /\ sched[w].pc = "campaign"
    /\ sched' = [sched EXCEPT ![w] =
                   IF FetchLeads(Head(sched[w].todo)) = <<>>
                   THEN Returned(sched[w], FALSE)
                   ELSE [sched[w] EXCEPT !.pc = "inboxes",
                                         !.leadsSel = FetchLeads(Head(sched[w].todo))]]
    /\ UNCHANGED <<campaign_leads, sendJobs>>
    /\ UNCHANGED notSchedVars

\* The inboxes of the workspace are fetched; without any the call returns
\* Err("No available inboxes with sending capacity"), which the caller prints.
SchedFetchInboxes(w) ==
    /\ sched[w].pc = "inboxes"
    /\ \E q \in AvailableInboxesOf(foreign_keys.campaign_workspace[Head(sched[w].todo)]) :
         sched' = [sched EXCEPT ![w] =
                     IF q = <<>>
                     THEN Returned(sched[w], TRUE)
                     ELSE [sched[w] EXCEPT !.pc = "insert", !.inboxSel = q, !.idx = 0]]
    /\ UNCHANGED <<campaign_leads, sendJobs>>
    /\ UNCHANGED notSchedVars

\* The driver's record once the loop is through with the lead at idx.
AfterLead(d) ==
    IF d.idx + 1 < Len(d.leadsSel)
    THEN [d EXCEPT !.pc = "insert", !.idx = d.idx + 1]
    ELSE Returned(d, FALSE)

\* The loop reaches the lead at idx: inbox = inboxes[idx % len]; without
\* remaining capacity in the fetched row the lead is skipped; otherwise a
\* SendEmail job with a fresh id is inserted for the lead and the inbox.
SchedInsert(w) ==
    /\ sched[w].pc = "insert"
    /\ LET d == sched[w]
           inbox == d.inboxSel[(d.idx % Len(d.inboxSel)) + 1]
       IN IF inbox.daily_limit - inbox.sent_today <= 0
          THEN /\ sched' = [sched EXCEPT ![w] = AfterLead(d)]
               /\ UNCHANGED sendJobs
          ELSE /\ sendJobs' = sendJobs \cup
                     {[lead |-> d.leadsSel[d.idx + 1], inbox |-> inbox.id,
                       id |-> <<w, d.inserted + 1>>]}
               /\ sched' = [sched EXCEPT ![w] = [d EXCEPT !.pc = "mark",
                                                         !.inserted = d.inserted + 1]]
    /\ UNCHANGED campaign_leads
    /\ UNCHANGED notSchedVars

\* SchedMark without its UPDATE.
SchedMark_NoUpdate(w) ==
    /\ sched[w].pc = "mark"
    /\ sched' = [sched EXCEPT ![w] = AfterLead(sched[w])]
    /\ UNCHANGED <<campaign_leads, sendJobs>>
    /\ UNCHANGED notSchedVars

\* UPDATE campaign_leads SET status = 'scheduled' WHERE id = $1, whatever the
\* status of the row is by now.
SchedMark(w) ==
    /\ sched[w].pc = "mark"
    /\ campaign_leads' =
         [campaign_leads EXCEPT ![sched[w].leadsSel[sched[w].idx + 1]].status = "scheduled"]
    /\ sched' = [sched EXCEPT ![w] = AfterLead(sched[w])]
    /\ UNCHANGED sendJobs
    /\ UNCHANGED notSchedVars

\* A driver that is not in a scheduling pass claims a SendEmail job and
\* executes it.
SchedSend(w, job) ==
    /\ sched[w].pc = "idle"
    /\ ExecuteSend(job)

NextSched ==
    \/ \E w \in Drivers : SchedBegin(w)
    \/ \E w \in Drivers : SchedFetchLeads(w)
    \/ \E w \in Drivers : SchedFetchInboxes(w)
    \/ \E w \in Drivers : SchedInsert(w)
    \/ \E w \in Drivers : SchedMark(w)
    \/ \E w \in Drivers, job \in sendJobs : SchedSend(w, job)

SpecSched == InitSched /\ [][NextSched]_vars

\* One driver instance: its scheduling passes, the jobs it executes between
\* them, and campaigns paused and started through the API meanwhile.
NextOneDriver ==
    \/ SchedBegin(1)
    \/ SchedFetchLeads(1)
    \/ SchedFetchInboxes(1)
    \/ SchedInsert(1)
    \/ SchedMark(1)
    \/ \E job \in sendJobs : SchedSend(1, job)
    \/ \E c \in CampaignIds : pause_campaign(c)
    \/ \E c \in CampaignIds : start_campaign(c)

SpecOneDriver == InitSched /\ [][NextOneDriver]_vars

\* ------------------------------------------- the driver's batch loop

\* The quote character of a job_type stored as a JSON string.
Quote == "\""

\* job.job_type.trim_matches('"') on a job_type given as its pieces.
RECURSIVE trim_matches(_)
trim_matches(t) ==
    IF t = <<>> THEN t
    ELSE IF Head(t) = Quote THEN trim_matches(Tail(t))
    ELSE IF t[Len(t)] = Quote THEN trim_matches(SubSeq(t, 1, Len(t) - 1))
    ELSE t

\* The SendEmail jobs a claim may return: the payload parses or not, a row
\* send_campaign_email loads may be missing, the SMTP server accepts or not.
SendEmailJobs ==
    [job_type : {<<Quote, "SendEmail", Quote>>},
     payload_valid : BOOLEAN,
     missing : {"none", "inbox", "campaign", "lead"},
     smtp_ok : BOOLEAN]

\* The other jobs a claim may return: the three types without a handler yet,
\* a type the worker does not know, and a SendEmail type stored unquoted.
OtherJobs ==
    [job_type : {<<Quote, "VerifyEmail", Quote>>, <<Quote, "WarmupEmail", Quote>>,
                 <<Quote, "ProcessCampaign", Quote>>, <<Quote, "Cleanup", Quote>>,
                 <<"SendEmail">>},
     payload_valid : {TRUE}, missing : {"none"}, smtp_ok : {TRUE}]

\* The batches a claim may return.
Batches ==
    UNION {[1..n -> SendEmailJobs \cup OtherJobs] : n \in 0..MaxBatch}

Ok == [ok |-> TRUE, error |-> None]
Err(e) == [ok |-> FALSE, error |-> Some(e)]

\* send_campaign_email as far as its result goes: the inbox, the campaign and
\* the lead are loaded, the message is sent over SMTP.
send_campaign_email(job) ==
    IF job.missing = "inbox" THEN Err("Inbox not found")
    ELSE IF job.missing = "campaign" THEN Err("Campaign not found")
    ELSE IF job.missing = "lead" THEN Err("Lead not found")
    ELSE IF ~job.smtp_ok THEN Err("SMTP error")
    ELSE Ok

\* process_job with Ok for a job type it does not know.
process_job_UnknownOk(job) ==
    IF trim_matches(job.job_type) = <<"SendEmail">>
    THEN IF ~job.payload_valid THEN Err("Invalid payload") ELSE send_campaign_email(job)
    ELSE Ok

\* process_job: the match on the trimmed job type.
process_job(job) ==
    IF trim_matches(job.job_type) = <<"SendEmail">>
    THEN IF ~job.payload_valid THEN Err("Invalid payload") ELSE send_campaign_email(job)
    ELSE IF trim_matches(job.job_type)
              \in {<<"VerifyEmail">>, <<"WarmupEmail">>, <<"ProcessCampaign">>}
    THEN Ok
    ELSE Err("Unknown job type")

\* A tick of the loop begins: claim_pending_jobs returns a batch.
LoopClaim(b) ==
    /\ pos = Len(claimed)
    /\ claimed' = b
    /\ pos' = 0
    /\ calls' = <<>>
    /\ UNCHANGED notLoopVars

\* The body of for job in jobs: process_job, then mark_completed on Ok and
\* mark_failed with the message on Err; an error of the mark call is printed.
LoopHandle ==
    /\ pos < Len(claimed)
    /\ calls' = Append(calls,
                       [job |-> pos + 1,
                        call |-> IF process_job(claimed[pos + 1]).ok
                                 THEN "mark_completed" ELSE "mark_failed",
                        error |-> process_job(claimed[pos + 1]).error])
    /\ pos' = pos + 1
    /\ UNCHANGED claimed
    /\ UNCHANGED notLoopVars

NextLoop ==
    \/ \E b \in Batches : LoopClaim(b)
    \/ LoopHandle

SpecLoop == Init /\ [][NextLoop]_vars

\* --------------------------------------------- the loop of JobWorker

\* The variants of enum JobType.
JobTypes == {"SendEmail", "VerifyEmail", "WarmupEmail", "ProcessCampaign", "UpdateAnalytics"}

\* serde_json::from_str(&job_type_str).unwrap_or(JobType::SendEmail) in
\* JobQueue::claim_pending_jobs: a stored tag that is the JSON string of a
\* variant decodes to it, anything else to SendEmail.
decode_job_type(t) ==
    IF Len(t) = 3 /\ t[1] = Quote /\ t[3] = Quote /\ t[2] \in JobTypes
    THEN t[2]
    ELSE "SendEmail"

\* JobWorker::process_send_email as far as its result goes.
process_send_email(job) ==
    IF ~job.payload_valid THEN Err("Invalid payload")
    ELSE IF job.missing = "inbox" THEN Err("Email account not found")
    ELSE IF ~job.smtp_ok THEN Err("SMTP error")
    ELSE Ok

\* JobWorker::process_job on a row decoded by claim_pending_jobs: the handler
\* chosen by the match and its result.
JobWorker_process_job(job) ==
    [handler |-> decode_job_type(job.job_type),
     result |-> IF decode_job_type(job.job_type) = "SendEmail"
                THEN process_send_email(job)
                ELSE IF job.payload_valid THEN Ok ELSE Err("Invalid payload")]

\* The body of for job in jobs in JobWorker::run.
JobWorkerHandle ==
    /\ pos < Len(claimed)
    /\ calls' = Append(calls,
                       [job |-> pos + 1,
                        handler |-> JobWorker_process_job(claimed[pos + 1]).handler,
                        call |-> IF JobWorker_process_job(claimed[pos + 1]).result.ok
                                 THEN "mark_completed" ELSE "mark_failed",
                        error |-> JobWorker_process_job(claimed[pos + 1]).result.error])
    /\ pos' = pos + 1
    /\ UNCHANGED claimed
    /\ UNCHANGED notLoopVars

NextJobWorker ==
    \/ \E b \in Batches : LoopClaim(b)
    \/ JobWorkerHandle

SpecJobWorker == Init /\ [][NextJobWorker]_vars

\* ------------------------------------------ SendEmail jobs in the loop

\* The SendEmail jobs a claim may return, with the lead and the inbox of
\* their payload.
ExecJobs ==
    [job_type : {<<Quote, "SendEmail", Quote>>},
     payload_valid : BOOLEAN,
     missing : {"none", "inbox", "campaign", "lead"},
     smtp_ok : BOOLEAN,
     lead : 1..MaxLeads,
     inbox : 1..NumInboxes]

\* One campaign whose leads are all scheduled, active inboxes with nothing
\* sent today.
InitExec ==
    /\ QueueAtRest
    /\ CampaignsAtRest
    /\ ThresholdsAtRest
    /\ campaign_leads = [l \in 1..MaxLeads |-> [status |-> "scheduled"]]
    /\ suppression_list = {}
    /\ sendJobs = {}
    /\ campaign_sent = <<0>>
    /\ inboxes = [i \in 1..NumInboxes |->
                    [warmup_status |-> "active", daily_limit |-> SampleLimit,
                     sent_today |-> 0, health_score |-> 90]]
    /\ WarmupAtRest
    /\ DriverAtRest
    /\ SchedAtRest
    /\ LoopAtRest
    /\ ProtectAtRest

\* A tick of the loop claims one SendEmail job (sends are counted up to
\* MaxSent).
ExecClaim(job) ==
    /\ campaign_sent[1] < MaxSent
    /\ LoopClaim(<<job>>)

\* The body of for job in jobs on a SendEmail job: process_job calls
\* send_campaign_email, whose three UPDATEs run once the message is sent;
\* then mark_completed on Ok and mark_failed on Err.
ExecHandle ==
    /\ pos < Len(claimed)
    /\ IF process_job(claimed[pos + 1]).ok
       THEN SendEffects(claimed[pos + 1].lead, claimed[pos + 1].inbox)
       ELSE UNCHANGED <<campaign_leads, inboxes, campaign_sent>>
    /\ calls' = Append(calls,
                       [job |-> pos + 1,
                        call |-> IF process_job(claimed[pos + 1]).ok
                                 THEN "mark_completed" ELSE "mark_failed",
                        error |-> process_job(claimed[pos + 1]).error])
    /\ pos' = pos + 1
    /\ UNCHANGED claimed
    /\ UNCHANGED <<queueVars, campaignVars, thresholdVars, suppression_list, sendJobs,
                   warmupVars, driverVars, schedVars, protectVars>>

NextExec ==
    \/ \E job \in ExecJobs : ExecClaim(job)
    \/ ExecHandle

SpecExec == InitExec /\ [][NextExec]_vars

\* --------------------------------- the protective pass, store errors

\* The email_accounts rows considered for a protective pass: warming, active
\* or paused, of health 40, 60 or 90.
ProtectRows ==
    [warmup_status : {"warming", "active", "paused"},
     daily_limit : {SampleLimit},
     sent_today : {0},
     health_score : {40, 60, 90}]

InitProtect ==
    /\ QueueAtRest
    /\ CampaignsAtRest
    /\ ThresholdsAtRest
    /\ campaign_leads = <<>>
    /\ suppression_list = {}
    /\ sendJobs = {}
    /\ campaign_sent = <<>>
    /\ inboxes \in [1..NumInboxes -> ProtectRows]
    /\ WarmupAtRest
    /\ DriverAtRest
    /\ SchedAtRest
    /\ LoopAtRest
    /\ ProtectAtRest

\* WHERE health_score < 75.0 AND warmup_status IN ('warming', 'active')
RiskyInboxes ==
    SelectSeq([i \in InboxIds |-> i],
              LAMBDA i : /\ inboxes[i].health_score < 75
                         /\ inboxes[i].warmup_status \in {"warming", "active"})

\* monitor_and_protect starts: the risky inboxes are fetched.
ProtectBegin ==
    /\ risky = <<>>
    /\ RiskyInboxes # <<>>
    /\ risky' = RiskyInboxes
    /\ UNCHANGED inboxes
    /\ UNCHANGED notProtectVars

\* The body of for inbox in risky_inboxes: the warning is printed; an inbox
\* of health below 50 is paused by an UPDATE whose error, if the store fails
\* (err), leaves the function through the ? operator.
ProtectStep(err) ==
    /\ risky # <<>>
    /\ IF inboxes[Head(risky)].health_score < 50
       THEN IF err
            THEN /\ risky' = <<>>
                 /\ UNCHANGED inboxes
            ELSE /\ inboxes' = [inboxes EXCEPT ![Head(risky)].warmup_status = "paused"]
                 /\ risky' = Tail(risky)
       ELSE /\ ~err
            /\ risky' = Tail(risky)
            /\ UNCHANGED inboxes
    /\ UNCHANGED notProtectVars

NextProtect ==
    \/ ProtectBegin
    \/ \E err \in BOOLEAN : ProtectStep(err)

SpecProtect == InitProtect /\ [][NextProtect]_vars

\* ------------------------------------------------------------------ claims

\* The jobs an instance holds: locked by its running claim statement, or
\* returned to it and not yet completed or failed.
Held(w) == IF pc[w] = "claiming" THEN locked[w] ELSE batch[w]

\* The sizes of the sets held by the instances of S, added up.
RECURSIVE SumHeld(_)
SumHeld(S) ==
    IF S = {} THEN 0
    ELSE LET w == CHOOSE x \in S : TRUE
         IN Cardinality(Held(w)) + SumHeld(S \ {w})

\* The claim statement of w returns in this step.
Returns(w) == pc[w] = "claiming" /\ pc'[w] \in {"idle", "processing"}

\* C1 - Claim exclusivity: however the claim calls of several instances
\* interleave, no job is locked by or returned to two callers for the same
\* transition into Processing: the sets of jobs held by different callers are
\* disjoint, every returned job is Processing, and the sizes of the sets held
\* add up to no more than the number of jobs locked or moved to Processing.
C1_ClaimExclusivity ==
    /\ \A w, v \in Workers : w # v => Held(w) \cap Held(v) = {}
    /\ \A w \in Workers : \A j \in batch[w] : jobs[j].status = "processing"
    /\ SumHeld(Workers) <= Cardinality({j \in Ids : jobs[j].status = "processing"
                                                    \/ LockedBy(j) # {}})

\* Two claim calls ran concurrently over two eligible jobs and each returned one.
C1_Witness ==
    \E w, v \in Workers :
        /\ w # v
        /\ pc[w] = "processing" /\ batch[w] # {}
        /\ pc[v] = "processing" /\ batch[v] # {}

\* C2 - claim(limit) returns at most limit jobs; every returned job was, right
\* before the call, Pending or Scheduled with next_retry_at <= now (never
\* Processing, Completed, Failed or Scheduled for later), and is left Processing.
C2_ClaimReturnsEligible ==
    [][\A w \in Workers : Returns(w) =>
          /\ Cardinality(batch'[w]) <= limit[w]
          /\ \A j \in batch'[w] :
               /\ j \in DOMAIN snapshot[w]
               /\ \/ snapshot[w][j].status = "pending"
                  \/ /\ snapshot[w][j].status = "scheduled"
                     /\ snapshot[w][j].next_retry_at # None
                     /\ \A r \in snapshot[w][j].next_retry_at : r <= txNow[w]
               /\ jobs'[j].status = "processing"]_vars

\* A claim returned a retried job while another job was left behind, Pending
\* beyond the limit or Scheduled for later.
C2_Witness ==
    \E w \in Workers, j, k \in Ids :
        /\ pc[w] = "processing" /\ j \in batch[w]
        /\ jobs[j].retry_count >= 2
        /\ \/ jobs[k].status = "pending"
           \/ jobs[k].status = "scheduled" /\ \E r \in jobs[k].next_retry_at : r > now

\* C3 - Completed and Failed are terminal: no claim, complete or fail call
\* changes the status of a job that is Completed or Failed.
C3_TerminalStatus ==
    [][\A j \in Ids : jobs[j].status \in {"completed", "failed"}
                        => jobs'[j].status = jobs[j].status]_vars

\* C4 - Backoff schedule: the first, second and third failure of a job
\* reschedule it 5, 10 and 20 minutes ahead, and the failure after that (at
\* retry_count = 3) sets it Failed with next_retry_at null. A job fails once
\* per attempt, so before its failure it has failed retry_count - 1 times.
C4_BackoffSchedule ==
    [][\A j \in Ids :
          (jobs[j].status = "processing" /\ jobs'[j].status \in {"scheduled", "failed"}) =>
             LET k == jobs[j].retry_count - 1 IN
             IF k < MaxRetries
             THEN /\ jobs'[j].status = "scheduled"
                  /\ jobs'[j].next_retry_at = Some(now + FiveMinutes * Pow2(k))
             ELSE /\ jobs'[j].status = "failed"
                  /\ jobs'[j].next_retry_at = None]_vars

\* C5 - retry_count <= max_retries for every job whose status is not Failed.
C5_RetryCountBounded ==
    \A j \in Ids : jobs[j].status # "failed" => jobs[j].retry_count <= jobs[j].max_retries

\* A job is on its last attempt: Processing with retry_count = max_retries.
C5_Witness ==
    \E j \in Ids : jobs[j].status = "processing" /\ jobs[j].retry_count = jobs[j].max_retries

\* C6 - next_retry_at is non-null only when status = Scheduled.
C6_NextRetryOnlyWhenScheduled ==
    \A j \in Ids : jobs[j].next_retry_at # None => jobs[j].status = "scheduled"

\* C7 - Idempotent completion: a complete call on a Completed job leaves the
\* status Completed and completed_at as the first call set it.
C7_IdempotentCompletion ==
    [][\A j \in Ids : (jobs[j].status = "completed" /\ jobs'[j].status = "completed")
                        => jobs'[j].completed_at = jobs[j].completed_at]_vars

\* C8 - Every enqueued job eventually is Completed or Failed while some
\* instance keeps running, also when the instance that claimed it stops.
C8_EventuallyTerminal ==
    \A j \in 1..MaxLiveJobs :
        (j \in Ids) ~> (j \in Ids /\ jobs[j].status \in {"completed", "failed"})

\* C9 - FIFO: a claim call that ran without a concurrent claim call and returns
\* job j also returns every job that was eligible at the call and was created
\* before j.
C9_ClaimFifo ==
    [][\A w \in Workers : (Returns(w) /\ ~overlap[w]) =>
          \A j \in batch'[w] : \A k \in DOMAIN snapshot[w] :
              ( /\ \/ snapshot[w][k].status = "pending"
                   \/ /\ snapshot[w][k].status = "scheduled"
                      /\ \E r \in snapshot[w][k].next_retry_at : r <= txNow[w]
                /\ jobs[k].created_at < jobs[j].created_at )
              => k \in batch'[w]]_vars

\* A claim without a concurrent claimer has locked an older job up to its
\* limit and is about to return, a younger candidate being left over.
C9_Witness ==
    \E w \in Workers :
        /\ pc[w] = "claiming" /\ ~overlap[w]
        /\ Cardinality(locked[w]) >= limit[w]
        /\ \E j \in locked[w], k \in scan[w] : jobs[j].created_at < jobs[k].created_at

\* C10 - retry_count never decreases: a claim of the job raises it by exactly
\* one, every other step (complete, fail, enqueue) leaves it unchanged.
C10_RetryCountMonotone ==
    [][\A j \in Ids :
          jobs'[j].retry_count =
             IF jobs[j].status # "processing" /\ jobs'[j].status = "processing"
             THEN jobs[j].retry_count + 1
             ELSE jobs[j].retry_count]_vars

\* A job was claimed, failed, claimed again and completed.
C10_Witness ==
    \E j \in Ids : jobs[j].status = "completed" /\ jobs[j].retry_count >= 2

\* C11 - In every reachable state, after any interleaving of monitor runs with
\* the campaign start, pause, resume and update handlers, a campaign with
\* auto_paused = true has status = Paused.
C11_AutoPausedImpliesPaused ==
    \A c \in CampaignIds : campaigns[c].auto_paused => campaigns[c].status = "paused"

\* C12 - Once an address is in the suppression list, no SendEmail execution
\* delivers mail to it, also not for a job enqueued before the suppression.
C12_NoSendToSuppressed ==
    [][\A l \in LeadIds :
          (campaign_leads[l].status # "sent" /\ campaign_leads'[l].status = "sent")
             => l \notin suppression_list]_vars

\* The remaining capacity of an inbox: daily_limit - sent_today, at least 0.
Remaining(i) ==
    IF inboxes[i].daily_limit > inboxes[i].sent_today
    THEN inboxes[i].daily_limit - inboxes[i].sent_today ELSE 0

\* C13 - Round-robin capacity skip: in one scheduling pass no inbox is
\* assigned more leads than its remaining capacity at the start of the pass;
\* a lead whose inbox's capacity is used up by earlier assignments of the
\* pass stays Pending (3 pending leads, A 10/9 and B 10/0: lead 3 stays).
C13_PassWithinCapacity ==
    [][\A i \in InboxIds :
          Cardinality({job \in sendJobs' \ sendJobs : job.inbox = i}) <= Remaining(i)]_vars

\* C14 - sent_today <= daily_limit for every inbox in every reachable state.
C14_SentWithinLimit ==
    \A i \in InboxIds : inboxes[i].sent_today <= inboxes[i].daily_limit

\* The rules of the threshold check, each a strict comparison of the metrics
\* in the state against the workspace's threshold.
SpamViolated == metrics.current_spam_rate > settings.spam_rate_threshold

ReplyDropViolated ==
    /\ metrics.previous_reply_rate > 0
    /\ (metrics.previous_reply_rate - metrics.current_reply_rate) * 100
          > settings.reply_drop_threshold * metrics.previous_reply_rate

BounceViolated == metrics.current_bounce_rate > settings.bounce_rate_threshold

\* C15 - Threshold precedence: check_campaign_thresholds returns the reason of
\* the first rule violated in the order spam rate, reply-rate drop, bounce
\* rate (each a strict > against the workspace threshold); with several rules
\* violated only the first is reported, with none should_pause is false.
C15_ThresholdPrecedence ==
    \A r \in result :
        /\ SpamViolated => r = [should_pause |-> TRUE, reason |-> {"spam_rate"}]
        /\ (~SpamViolated /\ ReplyDropViolated)
              => r = [should_pause |-> TRUE, reason |-> {"reply_drop"}]
        /\ (~SpamViolated /\ ~ReplyDropViolated /\ BounceViolated)
              => r = [should_pause |-> TRUE, reason |-> {"bounce_rate"}]
        /\ (~SpamViolated /\ ~ReplyDropViolated /\ ~BounceViolated)
              => (~r.should_pause /\ r.reason = {})

\* The check was called with spam 5% > 3% and bounce 10% > 8% at once.
C15_Witness ==
    /\ result # None
    /\ metrics.current_spam_rate = 5 /\ settings.spam_rate_threshold = 3
    /\ metrics.current_bounce_rate = 10 /\ settings.bounce_rate_threshold = 8

\* C16 - Reply-drop rule: with the spam rule not violated and
\* previous_reply_rate > 0 the check returns "reply_drop" exactly when
\* (previous - current) / previous > reply_drop_threshold; with
\* previous_reply_rate = 0 the rule is skipped.
C16_ReplyDropRule ==
    \A r \in result :
        ~SpamViolated =>
            /\ metrics.previous_reply_rate > 0 =>
                  (r.reason = {"reply_drop"} <=>
                     (metrics.previous_reply_rate - metrics.current_reply_rate) * 100
                        > settings.reply_drop_threshold * metrics.previous_reply_rate)
            /\ metrics.previous_reply_rate = 0 => r.reason # {"reply_drop"}

\* The check was called with previous 10%, current 5%, threshold 40% and
\* answered reply_drop.
C16_Witness ==
    /\ result = {[should_pause |-> TRUE, reason |-> {"reply_drop"}]}
    /\ metrics.previous_reply_rate = 10 /\ metrics.current_reply_rate = 5
    /\ settings.reply_drop_threshold = 40

\* C17 - Every inbox's sent_today is reset to 0 exactly once per calendar day
\* (UTC): the reset is executed on one tick of a day only, and sends counted
\* after that day's reset are not wiped by a further reset on the same day.
C17_ResetOncePerDay ==
    [][/\ resets' = resets + 1 => resets = 0
       /\ \A i \in InboxIds :
             inboxes'[i].sent_today < inboxes[i].sent_today => resets = 0]_vars

\* The ramp as the specification tabulates it.
RampTable(d) ==
    CASE d <= 2 -> 5
      [] d >= 3 /\ d <= 5 -> 10
      [] d >= 6 /\ d <= 9 -> 15
      [] d >= 10 /\ d <= 14 -> 20
      [] d >= 15 /\ d <= 21 -> 30
      [] d >= 22 /\ d <= 28 -> 40
      [] d >= 29 -> 50

\* C18 - Warm-up ramp: the target computed for an inbox of days_active >= 0 is
\* 5 for days 0-2, 10 for 3-5, 15 for 6-9, 20 for 10-14, 30 for 15-21, 40 for
\* 22-28 and 50 from day 29 on; it lies in 5..50 and is no less than the
\* target of any earlier day.
C18_WarmupRamp ==
    \A i \in DOMAIN target_volume : \A t \in target_volume[i] :
        /\ t = RampTable(inboxes[i].days_active)
        /\ t \in 5..50
        /\ \A e \in 0..inboxes[i].days_active : calculate_target_volume(e) <= t

\* A cycle computed the target 40 for an inbox created 25 days ago.
C18_Witness ==
    \E i \in DOMAIN target_volume :
        inboxes[i].days_active = 25 /\ target_volume[i] = {40}

\* C19 - Graduation: a warm-up cycle promotes a warming inbox to active with
\* daily_limit 50 if and only if days_active >= 30 and health_score >= 90;
\* every other warming inbox stays warming, and the cycle never changes an
\* active inbox back to warming.
C19_Graduation ==
    [][execute_warmup_cycle =>
         \A i \in InboxIds :
            /\ inboxes[i].warmup_status = "warming" =>
                  IF inboxes[i].days_active >= 30 /\ inboxes[i].health_score >= 90
                  THEN /\ inboxes'[i].warmup_status = "active"
                       /\ inboxes'[i].daily_limit = 50
                  ELSE inboxes'[i].warmup_status = "warming"
            /\ inboxes[i].warmup_status = "active" =>
                  inboxes'[i].warmup_status = "active"]_vars

\* A cycle has run over a warming inbox 30 days old with health 90: it is
\* active with daily_limit 50.
C19_Witness ==
    \E i \in DOMAIN target_volume :
        /\ target_volume[i] # {}
        /\ inboxes[i].warmup_status = "active" /\ inboxes[i].daily_limit = 50
        /\ inboxes[i].days_active = 30 /\ inboxes[i].health_score = 90

\* The duties due on tick n, in the order of the loop body.
DutiesOfTick(n) ==
    <<"claim">>
    \o (IF n % 10 = 0 THEN <<"scheduler">> ELSE <<>>)
    \o (IF n % 60 = 0 THEN <<"warmup", "protect">> ELSE <<>>)
    \o (IF n % 4320 = 0 THEN <<"monitor">> ELSE <<>>)

\* C20 - Driver cadence: on tick n (counted from 1) a job batch is claimed and
\* processed, the scheduler runs exactly when n is a multiple of 10, the
\* warm-up cycle and the protective pass exactly when n is a multiple of 60,
\* the auto-pause monitor exactly when n is a multiple of 4320; the duties
\* of a tick run one after another in that order.
C20_DriverCadence ==
    /\ duty \in {"reset", "sleep"} => (iteration >= 1 /\ ran = DutiesOfTick(iteration))
    /\ duty \in {"scheduler", "warmup", "monitor"} =>
          \E k \in 1..Len(DutiesOfTick(iteration)) :
              ran = SubSeq(DutiesOfTick(iteration), 1, k)

\* Tick 4320 has run all its duties: claim, scheduler, warm-up cycle,
\* protective pass and monitor.
C20_Witness ==
    /\ iteration = 4320
    /\ duty = "sleep"
    /\ ran = <<"claim", "scheduler", "warmup", "protect", "monitor">>

\* C26 - Once a campaign lead is unsubscribed, no later scheduling pass or
\* SendEmail execution changes its status, also not a job enqueued before.
C26_UnsubscribedFrozen ==
    [][\A l \in LeadIds :
          campaign_leads[l].status = "unsubscribed"
             => campaign_leads'[l].status = "unsubscribed"]_vars

\* C30 - After a warm-up cycle every inbox that was warming at its start and
\* did not graduate has daily_limit = ramp(days_active), whatever its
\* sent_today and its previous daily_limit were.
C30_LimitFollowsRamp ==
    [][execute_warmup_cycle =>
         \A i \in InboxIds :
            (inboxes[i].warmup_status = "warming" /\ inboxes'[i].warmup_status = "warming")
               => inboxes'[i].daily_limit = RampTable(inboxes[i].days_active)]_vars

C28_DisabledOrDefault ==
    [][/\ \A ld \in loaded' :
            /\ ~ld.effective.auto_pause_enabled => monitored' = {}
            /\ ld.row = None =>
                 ld.effective = [auto_pause_enabled |-> TRUE, spam_rate_threshold |-> 3,
                                 reply_drop_threshold |-> 40, bounce_rate_threshold |-> 8]
       /\ ((\E c \in CampaignIds : ~campaigns[c].auto_paused /\ campaigns'[c].auto_paused)
             \/ Len(auto_pause_events') > Len(auto_pause_events))
            => \E ld \in loaded : ld.effective.auto_pause_enabled
       /\ loaded' # loaded => UNCHANGED <<campaigns, auto_pause_events>>]_vars

\* A disabled pass has met an active campaign with metrics over a threshold
\* and left it alone.
C28_Witness ==
    /\ \E ld \in loaded : ~ld.effective.auto_pause_enabled /\ ld.violation
    /\ \E c \in CampaignIds : Checked(c)
    /\ auto_pause_events = <<>>

\* C29 - resume_campaign on a paused campaign sets it active and clears
\* auto_paused, auto_pause_reason and paused_at; it resolves every unresolved
\* event of the campaign with "resumed", so that none is left unresolved; the
\* campaign is then among those the next monitor pass checks.
C29_ResumeClears ==
    [][\A c \in CampaignIds :
          resume_campaign(c, TRUE) =>
             /\ campaigns[c].status = "paused" =>
                  /\ campaigns'[c] = [status |-> "active", auto_paused |-> FALSE,
                                      auto_pause_reason |-> None, paused_at |-> None]
                  /\ campaigns'[c].status = "active" /\ ~campaigns'[c].auto_paused
             /\ \A e \in EventIds :
                  (auto_pause_events[e].campaign = c /\ ~auto_pause_events[e].is_resolved)
                     => /\ auto_pause_events'[e].is_resolved
                        /\ auto_pause_events'[e].resolution_action = {"resumed"}
             /\ \A e \in DOMAIN auto_pause_events' :
                  auto_pause_events'[e].campaign = c => auto_pause_events'[e].is_resolved]_vars

\* A campaign auto-paused twice and resumed: active again, both events resumed.
C29_Witness ==
    \E c \in CampaignIds :
       /\ campaigns[c] = [status |-> "active", auto_paused |-> FALSE,
                          auto_pause_reason |-> None, paused_at |-> None]
       /\ Len(auto_pause_events) = 2
       /\ \A e \in EventIds :
            /\ auto_pause_events[e].campaign = c
            /\ auto_pause_events[e].resolution_action = {"resumed"}

\* The handler of a job returns an error: a SendEmail job with a malformed
\* payload, a missing inbox, campaign or lead, or a failed send; or a job of
\* a type that is none of the four known.
HandlerError(job) ==
    \/ /\ \E k \in DOMAIN job.job_type : job.job_type[k] = "SendEmail"
       /\ ~job.payload_valid \/ job.missing # "none" \/ ~job.smtp_ok
    \/ \A k \in DOMAIN job.job_type :
          job.job_type[k] \notin {"SendEmail", "VerifyEmail", "WarmupEmail", "ProcessCampaign"}

\* C21 - For every job of a claimed batch the loop has handled there is exactly
\* one call: mark_failed if the handler returned an error, mark_completed if
\* not; after a job, failed or not, the loop goes on with the next job of
\* the batch, and after the batch with the next tick.
C21_OneCallPerJob ==
    [][/\ Len(calls') = pos'
       /\ \A k \in 1..pos' :
            /\ calls'[k].job = k
            /\ calls'[k].call = IF HandlerError(claimed'[k]) THEN "mark_failed"
                                ELSE "mark_completed"
            /\ HandlerError(claimed'[k]) <=> calls'[k].error # None
       /\ pos < Len(claimed) => (pos' = pos + 1 /\ claimed' = claimed)
       /\ pos = Len(claimed) => pos' = 0]_vars

\* A job of unknown type was failed and the next job of the batch, a
\* SendEmail job that went through, was completed.
C21_Witness ==
    /\ Len(claimed) = 2
    /\ pos = 2
    /\ calls[1] = [job |-> 1, call |-> "mark_failed", error |-> {"Unknown job type"}]
    /\ trim_matches(claimed[2].job_type) = <<"SendEmail">>
    /\ calls[2] = [job |-> 2, call |-> "mark_completed", error |-> None]

\* C22 - Two SendEmail jobs for one campaign lead are in the queue only when
\* two driver instances enqueued them (a state two overlapping passes reach);
\* one instance never enqueues a lead twice, and the jobs keep distinct ids, so
\* that each is claimed and executed on its own.
C22_DoubleEnqueueAcrossDrivers ==
    \A j1, j2 \in sendJobs :
       j1 # j2 => /\ j1.id # j2.id
                  /\ j1.lead = j2.lead => j1.id[1] # j2.id[1]

\* Both drivers have enqueued a job for the same lead.
C22_Witness ==
    \E j1, j2 \in sendJobs :
       /\ j1.lead = j2.lead
       /\ j1.id[1] = 1
       /\ j2.id[1] = 2

\* C23 - A pass fetches only active campaigns; for a campaign it fetches at
\* most 100 leads, the oldest that are pending, of the campaign and not
\* suppressed; it fetches only inboxes of the campaign's workspace that are
\* warming or active, below their daily limit and of health 50 or more; and
\* every job it enqueues is for a fetched lead and a fetched inbox.
C23_EnqueuedFromFetched ==
    [][/\ ~(sendJobs' \subseteq sendJobs)
            => \E w \in Drivers : sched[w].pc = "insert" /\ sched'[w].pc = "mark"
       /\ \A w \in Drivers :
         /\ (sched[w].pc = "idle" /\ sched'[w].pc = "campaign")
              => \A k \in DOMAIN sched'[w].todo :
                    campaigns[sched'[w].todo[k]].status = "active"
         /\ (sched[w].pc = "campaign" /\ sched'[w].pc = "inboxes")
              => LET c == Head(sched[w].todo)
                     sel == sched'[w].leadsSel
                     fits(l) == /\ foreign_keys.lead_campaign[l] = c
                                /\ campaign_leads[l].status = "pending"
                                /\ l \notin suppression_list
                 IN /\ Len(sel) <= 100
                    /\ \A k \in DOMAIN sel : fits(sel[k])
                    /\ \A a, b \in DOMAIN sel : a < b => sel[a] < sel[b]
                    /\ \A l \in LeadIds :
                         (fits(l) /\ \A k \in DOMAIN sel : sel[k] # l)
                            => /\ Len(sel) = 100
                               /\ \A k \in DOMAIN sel : sel[k] < l
         /\ (sched[w].pc = "inboxes" /\ sched'[w].pc = "insert")
              => \A k \in DOMAIN sched'[w].inboxSel :
                    LET i == sched'[w].inboxSel[k].id
                    IN /\ foreign_keys.inbox_workspace[i]
                            = foreign_keys.campaign_workspace[Head(sched[w].todo)]
                       /\ inboxes[i].warmup_status \in {"warming", "active"}
                       /\ inboxes[i].sent_today < inboxes[i].daily_limit
                       /\ inboxes[i].health_score >= 50
         /\ (sched[w].pc = "insert" /\ sched'[w].pc = "mark")
              => \E job \in sendJobs' \ sendJobs :
                    /\ sendJobs' = sendJobs \cup {job}
                    /\ \E k \in DOMAIN sched[w].leadsSel : sched[w].leadsSel[k] = job.lead
                    /\ \E k \in DOMAIN sched[w].inboxSel : sched[w].inboxSel[k].id = job.inbox
                    /\ foreign_keys.lead_campaign[job.lead] = Head(sched[w].todo)]_vars

\* A finished pass has enqueued the second lead of the active first campaign
\* and left alone its suppressed first lead and the lead of the paused second
\* campaign.
C23_Witness ==
    /\ \A w \in Drivers : sched[w].pc = "idle"
    /\ \E job \in sendJobs : job.lead = 2
    /\ foreign_keys.lead_campaign[1] = 1
    /\ foreign_keys.lead_campaign[2] = 1
    /\ foreign_keys.lead_campaign[3] = 2
    /\ suppression_list = {1}
    /\ campaign_leads[1].status = "pending"
    /\ campaigns[2].status = "paused"
    /\ campaign_leads[3].status = "pending"

\* C24 - When a pass has fetched leads of a campaign and the campaign's
\* workspace has no eligible inbox, the call returns an error: no job is
\* enqueued, no lead changes, and the pass goes on with the next campaign.
C24_NoInboxNoJob ==
    [][\A w \in Drivers :
         (/\ sched[w].pc = "inboxes"
          /\ sched'[w] # sched[w]
          /\ ~\E i \in InboxIds :
                /\ foreign_keys.inbox_workspace[i]
                     = foreign_keys.campaign_workspace[Head(sched[w].todo)]
                /\ Available(i))
            => /\ sendJobs' = sendJobs
               /\ campaign_leads' = campaign_leads
               /\ Head(sched[w].todo) \in sched'[w].failed
               /\ sched'[w].todo = Tail(sched[w].todo)
               /\ sched'[w].pc = IF Tail(sched[w].todo) = <<>> THEN "idle" ELSE "campaign"]_vars

\* A pass failed for the first campaign and has enqueued a job for a lead
\* of the second.
C24_Witness ==
    \E w \in Drivers, job \in sendJobs :
       /\ sched[w].failed = {1}
       /\ job.id[1] = w
       /\ foreign_keys.lead_campaign[job.lead] = 2
       /\ campaign_leads[1].status = "pending"

\* C25 - A lead that is scheduled never returns to pending, and a lead that is
\* sent never returns to scheduled or pending.
C25_StatusForward ==
    [][\A l \in LeadIds :
         /\ campaign_leads[l].status = "scheduled" => campaign_leads'[l].status # "pending"
         /\ campaign_leads[l].status = "sent"
              => campaign_leads'[l].status \notin {"scheduled", "pending"}]_vars

\* C31 - The protective pass pauses every warming or active inbox of health
\* below 50, leaves every inbox of health 50 or more and every pending or
\* paused inbox as it is, changes no other column and no campaign.
C31_ProtectivePass ==
    [][monitor_and_protect =>
         /\ \A i \in InboxIds :
              /\ (inboxes[i].warmup_status \in {"warming", "active"}
                    /\ inboxes[i].health_score < 50)
                   => inboxes'[i] = [inboxes[i] EXCEPT !.warmup_status = "paused"]
              /\ inboxes[i].health_score >= 50 => inboxes'[i] = inboxes[i]
              /\ inboxes[i].warmup_status \in {"pending", "paused"}
                   => inboxes'[i] = inboxes[i]
         /\ campaigns' = campaigns]_vars

\* A new warming inbox of critical health has been paused.
C31_Witness ==
    \E i \in InboxIds :
       /\ inboxes[i].warmup_status = "paused"
       /\ inboxes[i].health_score = 40
       /\ inboxes[i].days_active = 0
       /\ inboxes[i].sent_today = 50

\* C32 - A store error while one inbox of a protective pass is handled does
\* not end the pass: the pass goes on with the next inbox it selected.
C32_PassGoesOn ==
    [][risky # <<>> => risky' = Tail(risky)]_vars

\* C33 - On a tick whose claim failed with a store error no further duty
\* runs: no scheduler, warm-up, protective or monitor run is added to the
\* tick, no daily reset is executed, and the tick ends.
C33_FailedClaimEndsTick ==
    [][(ran # <<>> /\ ran[1] = "claim_error")
          => /\ ran' = ran \/ ran' = <<>>
             /\ resets' = resets \/ resets' = 0
             /\ inboxes' = inboxes]_vars

\* C34 - The execution of a SendEmail job that succeeds marks the job's lead
\* sent, adds exactly one to the campaign's sent and to the inbox's sent_today,
\* changes no other lead or inbox, and the job is completed; an execution
\* that fails changes none of the three and the job is failed.
C34_SendEffects ==
    [][pos' = pos + 1 =>
         LET job == claimed[pos + 1]
         IN IF job.payload_valid /\ job.missing = "none" /\ job.smtp_ok
            THEN /\ campaign_leads' = [campaign_leads EXCEPT ![job.lead].status = "sent"]
                 /\ inboxes' = [inboxes EXCEPT ![job.inbox].sent_today =
                                                    inboxes[job.inbox].sent_today + 1]
                 /\ campaign_sent' = <<campaign_sent[1] + 1>>
                 /\ calls'[pos'].call = "mark_completed"
            ELSE /\ UNCHANGED <<campaign_leads, inboxes, campaign_sent>>
                 /\ calls'[pos'].call = "mark_failed"]_vars

\* A job that failed before the send left everything as it was, and the job
\* of the next tick went through.
C34_Witness ==
    /\ pos = 1
    /\ calls = <<[job |-> 1, call |-> "mark_completed", error |-> None]>>
    /\ campaign_sent = <<1>>
    /\ campaign_leads[claimed[1].lead].status = "sent"
    /\ inboxes[claimed[1].inbox].sent_today = 1
    /\ \A l \in LeadIds : l # claimed[1].lead => campaign_leads[l].status = "scheduled"

\* The name inside a stored type tag, quoted or not.
C35_TypeName(t) == IF Len(t) = 3 THEN t[2] ELSE t[1]

\* C35 - A claimed job whose type tag names no known job type is failed
\* without any handler having run; in particular the SendEmail handler is
\* never run on it.
C35_UnknownTypeFails ==
    \A k \in 1..Len(calls) :
        C35_TypeName(claimed[calls[k].job].job_type) \notin JobTypes =>
            /\ calls[k].call = "mark_failed"
            /\ calls[k].handler # "SendEmail"

\* C36 - With one driver, a job is inserted only for a pending lead that has
\* none, the lead becomes scheduled exactly in the statement after the insert,
\* a lead that left pending never returns to it, the leads a pass still has
\* before it are pending, and the jobs ever inserted are as many as the leads
\* that left pending (plus the one being marked): never two jobs for a lead.
C36_OneJobPerLead ==
    [][/\ \A l \in LeadIds :
            campaign_leads[l].status # "pending" => campaign_leads'[l].status # "pending"
       /\ \A job \in sendJobs' \ sendJobs :
            /\ campaign_leads[job.lead].status = "pending"
            /\ \A other \in sendJobs : other.lead # job.lead
            /\ sched'[1].pc = "mark"
            /\ sched'[1].leadsSel[sched'[1].idx + 1] = job.lead
       /\ \A l \in LeadIds :
            (campaign_leads[l].status = "pending" /\ campaign_leads'[l].status # "pending") =>
                /\ campaign_leads'[l].status = "scheduled"
                /\ sched[1].pc = "mark"
                /\ \E job \in sendJobs : job.lead = l /\ job.id = <<1, sched[1].inserted>>
       /\ sched'[1].pc \in {"inboxes", "insert", "mark"} =>
            \A k \in 1..Len(sched'[1].leadsSel) :
                k > sched'[1].idx => campaign_leads'[sched'[1].leadsSel[k]].status = "pending"
       /\ sched'[1].inserted =
            Cardinality({l \in LeadIds : campaign_leads'[l].status # "pending"})
              + (IF sched'[1].pc = "mark" THEN 1 ELSE 0)]_vars

\* After its passes the driver has inserted two jobs: one lead is sent, one
\* is scheduled with its one job waiting, and a lead never assigned is
\* pending without a job.
C36_Witness ==
    /\ sched[1].pc = "idle"
    /\ sched[1].inserted = 2
    /\ \E a, b, c \in LeadIds :
         /\ campaign_leads[a].status = "sent"
         /\ campaign_leads[b].status = "scheduled"
         /\ Cardinality({job \in sendJobs : job.lead = b}) = 1
         /\ campaign_leads[c].status = "pending"
         /\ \A job \in sendJobs : job.lead # c

\* C37 - While a campaign is paused no mail of it is sent: a campaign's sent
\* count grows, and a lead of the campaign becomes sent, only in a step taken
\* while the campaign is active.
C37_PausedSendsNothing ==
    [][/\ \A c \in CampaignIds :
            campaign_sent'[c] > campaign_sent[c] => campaigns[c].status = "active"
       /\ \A l \in LeadIds :
            (campaign_leads[l].status # "sent" /\ campaign_leads'[l].status = "sent") =>
                campaigns[foreign_keys.lead_campaign[l]].status = "active"]_vars

C39_NoReplyDropPause ==
    /\ \A row \in SettingsRows, reply \in Rates :
         /\ CampaignMetrics(0, reply, 0).previous_reply_rate
              = CampaignMetrics(0, reply, 0).current_reply_rate
         /\ check_campaign_thresholds(CampaignMetrics(0, reply, 0),
                                      EffectiveSettings(row)) = NoPause
    /\ \A m \in monitored : m.result.reason \in {Some("spam_rate"), Some("bounce_rate")}
    /\ \A e \in EventIds :
         auto_pause_events[e].pause_reason \in {Some("spam_rate"), Some("bounce_rate")}

\* Monitor runs have paused one campaign for its spam rate and one for its
\* bounce rate, the latter under a reply-drop threshold of 0.
C39_Witness ==
    /\ \E e \in EventIds : auto_pause_events[e].pause_reason = Some("spam_rate")
    /\ \E e \in EventIds : auto_pause_events[e].pause_reason = Some("bounce_rate")
    /\ \E l \in loaded : l.effective.reply_drop_threshold = 0 /\ l.violation

\* C40 - A resume request that matches no paused or auto-paused campaign of
\* the caller's workspace changes no campaign row and no auto_pause_events row.
C40_RejectedResumeChangesNothing ==
    [][\A c \in CampaignIds, own \in BOOLEAN :
          (/\ resume_campaign(c, own)
           /\ ~(own /\ (campaigns[c].status = "paused" \/ campaigns[c].auto_paused)))
             => UNCHANGED <<campaigns, auto_pause_events>>]_vars

====
